---- MODULE Spec2Model ----
(***************************************************************************)
(* Model of the time-tracker visualizer (amarax/time-tracker).             *)
(*                                                                         *)
(* Time is in milliseconds since a model epoch that is a UTC midnight.     *)
(* The viewer's IANA zone is a record [std, dst, trans]: the zone offset   *)
(* is std before the UTC instant trans and dst from trans on.              *)
(*                                                                         *)
(* The pipelines modelled here:                                            *)
(*   load('focused') -> convertFocusedEntries -> getFocusedBlocks          *)
(*   load('system')  -> convertSystemEntries  -> getSystemBlocks           *)
(*   load('process') -> consolidateProcessEntries -> getProcessBlocks      *)
(*                   -> processNameToIndex (the lanes of CalendarView)     *)
(* One run handles one log kind (logPath), as one call of load() does.     *)
(* The focused and system runs are the behaviours of Spec, the process     *)
(* runs those of SpecProcess. SpecPage is +page.svelte itself: the visible *)
(* week, the loads in flight and the reload on focus.                      *)
(***************************************************************************)
EXTENDS Integers, Sequences, FiniteSets, TLC

\* ------------------------------------------------------------------------
\* Program constants
\* ------------------------------------------------------------------------
\* CalendarEntries.js:236  const dayms = 24 * 60 * 60 * 1000
dayms == 86400000
\* CalendarView.svelte:41  const hourms = 60 * 60 * 1000
hourms == 3600000
\* one second, the granularity of fullFmt (CalendarEntries.js:141-150)
secms == 1000
\* CalendarView.svelte:25  days = 7
days == 7

\* ------------------------------------------------------------------------
\* Bounds of the model
\* ------------------------------------------------------------------------
\* longest log (rows of one CSV response)
MaxEntries == 3
\* cap on the number of rects one run may push (the split loops are
\* unbounded in the code); runs that terminate push at most 5
MaxRects == 8

\* longest process log (rows of one CSV response)
MaxSamples == 6
\* longest process log that has a sample of the next week
MaxLongSamples == 3
\* calls of loadData in one behaviour of the page
MaxLoads == 3
\* how many weeks the page moves away from the current week
MaxWeeks == 1
\* steps of the clock in one behaviour of the page
MaxTicks == 2
\* loads that fail in one behaviour of the page
MaxFailures == 1
\* calls of poll() in one behaviour of the monitor
MaxPolls == 2
\* characters of a value of a CSV row
MaxChars == 2
\* wheel and pan events in one behaviour of the view
MaxGestures == 3
\* entries of each log given to HighlightStats
MaxStatsEntries == 2

\* +page.svelte: const focusThreshold = 60 * 1000
focusThreshold == 60000
\* the time between two observations of Date.now() by the page
TickLength == 45000

\* JavaScript undefined, for an absent end
Undefined == -1

Min(a, b) == IF a < b THEN a ELSE b
Abs(a) == IF a < 0 THEN -a ELSE a

\* ------------------------------------------------------------------------
\* Environment: resolved time zone, clock, props of CalendarView
\* ------------------------------------------------------------------------
VARIABLES
    zone,           \* Intl.DateTimeFormat().resolvedOptions().timeZone
    now,            \* Date.now() during the run
    startDay,       \* local day number of the startDate prop (a Monday)
    hours,          \* <<hourStart, hourEnd>> of the displayed window
    logPath         \* which log this run loads and lays out

\* Zones: no DST (Asia/Singapore), spring forward west of UTC
\* (America/New_York, 02:00 EST = 07:00 UTC), spring forward east of UTC
\* (Australia/Sydney, 02:00 AEST = 16:00 UTC of the previous UTC day).
Singapore == [name |-> "Asia/Singapore", std |-> 8 * hourms, dst |-> 8 * hourms, trans |-> 0]
NewYork == [name |-> "America/New_York", std |-> -5 * hourms, dst |-> -4 * hourms,
            trans |-> dayms + 7 * hourms]
Sydney == [name |-> "Australia/Sydney", std |-> 10 * hourms, dst |-> 11 * hourms,
           trans |-> dayms + 16 * hourms]
Zones == {Singapore, NewYork, Sydney}

\* zone offset (ms, positive east of UTC) in force at the UTC instant ts
ZoneOffset(ts) == IF ts < zone.trans THEN zone.std ELSE zone.dst

\* the local calendar date of ts as a day number (what formatToParts gives
\* as year, month, day)
LocalDay(ts) == (ts + ZoneOffset(ts)) \div dayms

\* Date local-time arithmetic (setHours(0,0,0,0), setDate): the instant of
\* 00:00 local on local day d
LocalDayStart(d) ==
    IF d * dayms - zone.std < zone.trans THEN d * dayms - zone.std
    ELSE d * dayms - zone.dst

\* ------------------------------------------------------------------------
\* CalendarEntries.js: civil-time helpers
\* ------------------------------------------------------------------------
\* offset(ts): fullFmt reads Y-M-D h:m:s (whole seconds, hours 0 to 23) in
\* the zone, and Date.UTC of these parts minus ts is the offset
offset(ts) ==
    LET localEpoch == ((ts + ZoneOffset(ts)) \div secms) * secms
    IN  localEpoch - ts

\* nextMidnight(ts): Date.UTC(y, m, d + 1, 0, 0, 1) of the local date of
\* ts, shifted by the offset found at that UTC instant
nextMidnight(ts) ==
    LET baseUTC == (LocalDay(ts) + 1) * dayms + secms
    IN  baseUTC - offset(baseUTC)

\* currentMidnight(ts): Date.UTC(y, m, d, 0, 0, 1) of the local date of ts,
\* returned unshifted
currentMidnight(ts) == LocalDay(ts) * dayms + secms

\* CalendarView.svelte:42  new Date().getTimezoneOffset() * 60 * 1000
timeZoneOffset == -ZoneOffset(now)

\* CalendarView.svelte:44-45, 215-220: the domain of timeAxis
displayedHourStart == hours[1] * hourms + timeZoneOffset
displayedHourEnd == hours[2] * hourms + timeZoneOffset

\* CalendarView.svelte:30-38: dateRange[dateRange.length - 1]
dateRangeLast == LocalDayStart(startDay + days - 1)

\* ------------------------------------------------------------------------
\* State of one run: load(logPath, ...) and the layout of what it returns
\* ------------------------------------------------------------------------
VARIABLES
    rows,           \* load(): the parsed rows of the CSV response
    entries,        \* focusedEntries / systemEntries of +page.svelte
    pc,             \* position of the run
    i,              \* index of the entry loop (1-based)
    start,          \* the while loops' start
    end,            \* the while loops' end
    rects,          \* getFocusedBlocks: rects; getSystemBlocks: rects
    currentRect,    \* getSystemBlocks: the open Idle interval, or NoRect
    j,              \* getSystemBlocks: index of the rect flatMap is at
    r,              \* getSystemBlocks: the slices of that rect
    out             \* getSystemBlocks: the slices flatMap has collected

\* ------------------------------------------------------------------------
\* State of a process run: +page.svelte processEntries and the derived
\* values of CalendarView that lay them out
\* ------------------------------------------------------------------------
VARIABLES
    processEntries,     \* the ProcessEntryBlocks load('process') returned
    processRects,       \* CalendarView: the rects of the process track
    processIntervals,   \* processNameToIndex: the Map group -> intervals,
                        \* in insertion order
    processNameToIndex, \* processNameToIndex: name-pid -> lane index
    groupIndex          \* processNameToIndex: groupIndex of the rect at i

processVars == <<processEntries, processRects, processIntervals,
                 processNameToIndex, groupIndex>>

\* ------------------------------------------------------------------------
\* State of +page.svelte
\* ------------------------------------------------------------------------
VARIABLES
    startDate,          \* $state: the Monday of the visible week (a Date)
    endDate,            \* $derived: startDate + 6 days (a Date)
    focusedEntries,     \* $state: what load('focused') last delivered
    systemEntries,      \* $state: what load('system') last delivered
    lastFocused,        \* $state: Date.now() at mount or at the last focus event
    fetches,            \* the loads in flight
    requests,           \* how many times loadData has been called
    windowFocused,      \* whether the window has the focus
    blurredAt,          \* when the window lost the focus
    unhandled           \* the loads whose promise was rejected with
                        \* nothing handling it, in the order they failed

pageVars == <<startDate, endDate, focusedEntries, systemEntries, lastFocused,
              fetches, requests, windowFocused, blurredAt, unhandled>>

\* ------------------------------------------------------------------------
\* State of monitor.js
\* ------------------------------------------------------------------------
VARIABLES
    monitor,            \* the module's let variables (lines 117-124)
    polls,              \* the calls of poll() so far, each with its locals
                        \* and the await it is suspended at
    written             \* the rows handed to client.write, in order

monitorVars == <<monitor, polls, written>>

\* ------------------------------------------------------------------------
\* One row on its way from GET /logs/[log] to load()
\* ------------------------------------------------------------------------
VARIABLES
    csvRow,             \* the values of the row, as InfluxDB returned them
    csvText,            \* the line of the response that carries them
    csvEntry            \* the values load() made of the line

csvVars == <<csvRow, csvText, csvEntry>>

\* ------------------------------------------------------------------------
\* State of CalendarView that the wheel and the middle button change
\* ------------------------------------------------------------------------
VARIABLES
    displayed,          \* displayedHourStart and displayedHourEnd as the
                        \* events have left them: [start, end]
    gestures            \* the handlers that have run, in order

viewVars == <<displayed, gestures>>

\* ------------------------------------------------------------------------
\* State of HighlightStats
\* ------------------------------------------------------------------------
VARIABLES
    data,               \* prop: [system, focused], the entries to analyse
    timeRange,          \* prop: <<first instant, last instant>> of the data
    stats               \* the $derived values, or NoStats

statsVars == <<data, timeRange, stats>>

\* the variables of the other components
extraVars == <<monitorVars, csvVars, viewVars, statsVars>>

\* the variables the focused and system pipelines leave alone
otherVars == <<processVars, pageVars, extraVars>>

\* the variables of the layout runs, and those of the lane allocator
layoutVars == <<startDay, hours, logPath, rows, entries, pc, i, start, end,
                rects, currentRect, j, r, out>>
laneVars == <<processRects, processIntervals, processNameToIndex, groupIndex>>

vars == <<zone, now, startDay, hours, logPath,
          rows, entries, pc, i, start, end, rects, currentRect, j, r, out,
          processVars, pageVars, extraVars>>

\* JavaScript null, for currentRect
NoRect == [label |-> "null"]

\* An ISO time string of the CSV, new Date(string).getTime(), and the
\* undefined that stands where a row has no such string
TimeString(t) == <<"iso", t>>
DateOf(s) == s[2]
NoTime == <<"undefined", 0>>

\* ------------------------------------------------------------------------
\* +page.svelte load(), lines 41-56: end of row i is the time of row i + 1
\* ------------------------------------------------------------------------
\* rows[i + 1]?.time
NextRowTime(rs, k) == IF k + 1 <= Len(rs) THEN rs[k + 1].time ELSE NoTime

\* convertFocusedEntries with a[i].time where the code reads a[i + 1].time
convertFocusedEntriesOwnTime(e) ==
    [k \in 1..Len(e) |->
        [start |-> DateOf(e[k].time),
         end |-> IF k < Len(e) THEN DateOf(e[k].time) ELSE Undefined,
         title |-> e[k].title,
         process |-> e[k].process,
         path |-> e[k].path,
         url |-> e[k].url]]

\* CalendarEntries.js:113-122
convertFocusedEntries(e) ==
    [k \in 1..Len(e) |->
        [start |-> DateOf(e[k].time),
         end |-> IF k < Len(e) THEN DateOf(e[k + 1].time) ELSE Undefined,
         title |-> e[k].title,
         process |-> e[k].process,
         path |-> e[k].path,
         url |-> e[k].url]]

\* CalendarEntries.js:129-136 (sleepState keeps the string "false" for the
\* boolean false)
convertSystemEntries(e) ==
    [k \in 1..Len(e) |->
        [start |-> DateOf(e[k].time),
         end |-> IF e[k].end # NoTime THEN DateOf(e[k].end) ELSE Undefined,
         isIdle |-> (e[k].isIdle = "true"),
         sleepState |-> e[k].sleepState]]

\* ------------------------------------------------------------------------
\* CalendarEntries.js:71-106 consolidateProcessEntries
\* ------------------------------------------------------------------------
\* Date.prototype.getDay(): the local day of the week, 0 for Sunday; local
\* day 1 of the model is a Monday
getDay(ts) == LocalDay(ts) % 7

\* key() without the started time
keyNoStarted(entry) == <<entry.pid, 0, getDay(DateOf(entry.time))>>

\* key() with the local calendar date in place of the day of the week
keyByDate(entry) ==
    <<entry.pid, DateOf(entry.started), LocalDay(DateOf(entry.time))>>

\* lines 77-79: `${pid}-${started ms}-${getDay()}`. The pid is a string of
\* digits and the two numbers are not negative, so the string determines
\* the three parts; the model keeps them as a tuple.
key(entry) ==
    <<entry.pid, DateOf(entry.started), getDay(DateOf(entry.time))>>

\* lines 83-103: the object `consolidated` after the first k entries, as the
\* sequence of its <<key, block>> properties in insertion order
RECURSIVE ConsolidatedUpTo(_, _)
ConsolidatedUpTo(e, k) ==
    IF k = 0 THEN <<>>
    ELSE LET consolidated == ConsolidatedUpTo(e, k - 1)
             at == {x \in 1..Len(consolidated) : consolidated[x].key = key(e[k])}
             time == DateOf(e[k].time)
         IN  IF at # {}
             THEN LET x == CHOOSE x \in at : TRUE
                      lastEntry == consolidated[x].block
                  IN  [consolidated EXCEPT ![x].block =
                          [lastEntry EXCEPT
                              !.timestamps = Append(lastEntry.timestamps, time),
                              !.cpu = Append(lastEntry.cpu, e[k].cpu),
                              !.memory = Append(lastEntry.memory, e[k].memory),
                              !.end = time]]
             ELSE Append(consolidated,
                         [key |-> key(e[k]),
                          block |-> [pid |-> e[k].pid,
                                     name |-> e[k].name,
                                     timestamps |-> <<time>>,
                                     cpu |-> <<e[k].cpu>>,
                                     memory |-> <<e[k].memory>>,
                                     start |-> time,
                                     end |-> time,
                                     started |-> DateOf(e[k].started)]])

\* line 105: Object.values(consolidated)
consolidateProcessEntries(e) ==
    LET consolidated == ConsolidatedUpTo(e, Len(e))
    IN  [x \in 1..Len(consolidated) |-> consolidated[x].block]

\* load(): the rows with their synthesized end, converted by log kind
load(path, rs) ==
    LET e == [k \in 1..Len(rs) |->
                [f \in (DOMAIN rs[k]) \cup {"end"} |->
                    IF f = "end" THEN NextRowTime(rs, k) ELSE rs[k][f]]]
    IN  CASE path = "focused" -> convertFocusedEntries(e)
          [] path = "system" -> convertSystemEntries(e)
          [] path = "process" -> consolidateProcessEntries(e)

\* +page.svelte loadData: load('focused') and load('system') resolved
Load ==
    /\ logPath \in {"focused", "system"}
    /\ pc = "load"
    /\ entries' = load(logPath, rows)
    /\ i' = 1
    /\ pc' = "for"
    /\ UNCHANGED <<zone, now, startDay, hours, logPath, rows, start, end, rects,
                   currentRect, j, r, out>>
    /\ UNCHANGED otherVars

\* ------------------------------------------------------------------------
\* CalendarEntries.js:247-291 getFocusedBlocks
\* ------------------------------------------------------------------------
\* label: entry.title || entry.process || entry.path || entry.url || ''
Label(entry) ==
    IF entry.title # "" THEN entry.title
    ELSE IF entry.process # "" THEN entry.process
    ELSE IF entry.path # "" THEN entry.path
    ELSE entry.url

\* entry.end || Math.min(Date.now(), dateRange[last].getTime() + dayms)
FocusedEnd(entry) ==
    IF entry.end # Undefined THEN entry.end
    ELSE Min(now, dateRangeLast + dayms)

\* The rect of one iteration (lines 258-284). timeAxis is an increasing
\* affine scale of [displayedHourStart, displayedHourEnd]; y and height are
\* kept in the units of its domain (ms), x and width (pixels that depend on
\* svgWidth and the weekday only) are left out.
FocusedRect(entry, s, e) ==
    LET blockEnd == nextMidnight(s) - 1
        dayStart == currentMidnight(s)
    IN  [start |-> s,
         end |-> blockEnd,
         label |-> Label(entry),
         y |-> s - dayStart,
         height |-> Abs((Min(e, blockEnd) - dayStart) - (s - dayStart)),
         entry |-> entry]

\* line 274: y + height >= timeAxis.range()[0] && y < timeAxis.range()[1]
InAxisBounds(rect) ==
    /\ rect.y + rect.height >= displayedHourStart
    /\ rect.y < displayedHourEnd

\* for (let i = 0; i < entries.length; i++): start and end of entry i
FocusedFor ==
    /\ logPath = "focused"
    /\ pc = "for"
    /\ i <= Len(entries)
    /\ start' = entries[i].start
    /\ end' = FocusedEnd(entries[i])
    /\ pc' = "while"
    /\ UNCHANGED <<zone, now, startDay, hours, logPath, rows, entries, i, rects,
                   currentRect, j, r, out>>
    /\ UNCHANGED otherVars

\* one iteration of while (start < end)
FocusedWhile ==
    /\ logPath = "focused"
    /\ pc = "while"
    /\ start < end
    /\ Len(rects) < MaxRects
    /\ LET rect == FocusedRect(entries[i], start, end)
       IN  /\ rects' = IF InAxisBounds(rect) THEN Append(rects, rect) ELSE rects
           /\ start' = (nextMidnight(start) - 1) + 1
    /\ UNCHANGED <<zone, now, startDay, hours, logPath, rows, entries, pc, i, end,
                   currentRect, j, r, out>>
    /\ UNCHANGED otherVars

\* the while loop ends, i++
FocusedNext ==
    /\ logPath = "focused"
    /\ pc = "while"
    /\ ~(start < end)
    /\ i' = i + 1
    /\ pc' = "for"
    /\ UNCHANGED <<zone, now, startDay, hours, logPath, rows, entries, start, end,
                   rects, currentRect, j, r, out>>
    /\ UNCHANGED otherVars

\* return rects
FocusedReturn ==
    /\ logPath = "focused"
    /\ pc = "for"
    /\ i > Len(entries)
    /\ pc' = "done"
    /\ UNCHANGED <<zone, now, startDay, hours, logPath, rows, entries, i, start,
                   end, rects, currentRect, j, r, out>>
    /\ UNCHANGED otherVars

\* ------------------------------------------------------------------------
\* CalendarEntries.js:298-350 getSystemBlocks
\* ------------------------------------------------------------------------
\* IdleRect without lines 321-323: the end stays the preset new Date()
IdleRectKeepsNow(cur, entry) ==
    IF cur = NoRect
    THEN [start |-> entry.start, end |-> now, label |-> "Idle"]
    ELSE cur

\* IdleRect opening a new interval at every idle entry
IdleRectRestart(cur, entry) ==
    LET opened == [start |-> entry.start, end |-> now, label |-> "Idle"]
    IN  IF entry.end # Undefined THEN [opened EXCEPT !.end = entry.end]
        ELSE opened

\* lines 313-323: an idle entry opens currentRect if none is open (its end
\* preset to new Date()), and moves its end to the entry's end if it has one
IdleRect(cur, entry) ==
    LET opened == IF cur = NoRect
                  THEN [start |-> entry.start, end |-> now, label |-> "Idle"]
                  ELSE cur
    IN  IF entry.end # Undefined THEN [opened EXCEPT !.end = entry.end]
        ELSE opened

\* lines 303-325: one entry of the merge loop
SystemFor ==
    /\ logPath = "system"
    /\ pc = "for"
    /\ i <= Len(entries)
    /\ IF ~entries[i].isIdle
       THEN IF currentRect # NoRect
            THEN /\ rects' = Append(rects, currentRect)
                 /\ currentRect' = NoRect
            ELSE UNCHANGED <<rects, currentRect>>
       ELSE /\ currentRect' = IdleRect(currentRect, entries[i])
            /\ UNCHANGED rects
    /\ i' = i + 1
    /\ UNCHANGED <<zone, now, startDay, hours, logPath, rows, entries, pc, start,
                   end, j, r, out>>
    /\ UNCHANGED otherVars

\* lines 326-329: an interval still open after the last entry is pushed
SystemForDone ==
    /\ logPath = "system"
    /\ pc = "for"
    /\ i > Len(entries)
    /\ rects' = IF currentRect # NoRect THEN Append(rects, currentRect) ELSE rects
    /\ j' = 1
    /\ pc' = "flatMap"
    /\ UNCHANGED <<zone, now, startDay, hours, logPath, rows, entries, i, start,
                   end, currentRect, r, out>>
    /\ UNCHANGED otherVars

\* lines 332-336: flatMap takes the next rect
SystemFlatMap ==
    /\ logPath = "system"
    /\ pc = "flatMap"
    /\ j <= Len(rects)
    /\ start' = rects[j].start
    /\ end' = rects[j].end
    /\ r' = <<>>
    /\ pc' = "while"
    /\ UNCHANGED <<zone, now, startDay, hours, logPath, rows, entries, i, rects,
                   currentRect, j, out>>
    /\ UNCHANGED otherVars

\* lines 338-343: the slice of one iteration
SystemSlice(rect, s, e) ==
    LET sliceEnd == nextMidnight(s) - 1
    IN  [rect EXCEPT !.start = s, !.end = Min(e, sliceEnd)]

\* lines 337-345: one iteration of while (start < end)
SystemWhile ==
    /\ logPath = "system"
    /\ pc = "while"
    /\ start < end
    /\ Len(out) + Len(r) < MaxRects
    /\ r' = Append(r, SystemSlice(rects[j], start, end))
    /\ start' = (nextMidnight(start) - 1) + 1
    /\ UNCHANGED <<zone, now, startDay, hours, logPath, rows, entries, pc, i, end,
                   rects, currentRect, j, out>>
    /\ UNCHANGED otherVars

\* line 346: return r
SystemNext ==
    /\ logPath = "system"
    /\ pc = "while"
    /\ ~(start < end)
    /\ out' = out \o r
    /\ r' = <<>>
    /\ j' = j + 1
    /\ pc' = "flatMap"
    /\ UNCHANGED <<zone, now, startDay, hours, logPath, rows, entries, i, start,
                   end, rects, currentRect>>
    /\ UNCHANGED otherVars

\* lines 347-349: rects = the flattened slices; return rects
SystemReturn ==
    /\ logPath = "system"
    /\ pc = "flatMap"
    /\ j > Len(rects)
    /\ rects' = out
    /\ pc' = "done"
    /\ UNCHANGED <<zone, now, startDay, hours, logPath, rows, entries, i, start,
                   end, currentRect, j, r, out>>
    /\ UNCHANGED otherVars

\* ------------------------------------------------------------------------
\* The process track: load('process'), getProcessBlocks, processNameToIndex
\* ------------------------------------------------------------------------
\* +page.svelte loadData: load('process') resolved, processEntries = data
LoadProcess ==
    /\ logPath = "process"
    /\ pc = "load"
    /\ processEntries' = load(logPath, rows)
    /\ pc' = "rects"
    /\ UNCHANGED <<zone, now, startDay, hours, logPath, rows, entries, i, start,
                   end, rects, currentRect, j, r, out, processRects,
                   processIntervals, processNameToIndex, groupIndex>>
    /\ UNCHANGED <<pageVars, extraVars>>

\* Day Splitter of the specification: one sub-block per local day of
\* [s, e), each ending at min(e, next local midnight - 1 ms)
RECURSIVE splitByLocalDay(_, _, _)
splitByLocalDay(entry, s, e) ==
    IF ~(s < e) THEN <<>>
    ELSE LET nextLocalMidnight == LocalDayStart(LocalDay(s) + 1)
         IN  <<[start |-> s, end |-> Min(e, nextLocalMidnight - 1),
                label |-> entry.name, entry |-> entry]>>
             \o splitByLocalDay(entry, nextLocalMidnight, e)

\* getProcessBlocks of the specification (buildProcessBlocks): the blocks of
\* every consolidated entry from its start to its end, label = name, day-split
RECURSIVE getProcessBlocks(_)
getProcessBlocks(es) ==
    IF es = <<>> THEN <<>>
    ELSE splitByLocalDay(es[1], es[1].start, es[1].end)
         \o getProcessBlocks(Tail(es))

\* CalendarView dateRange[0]: 00:00 local of the startDate prop
dateRangeFirst == LocalDayStart(startDay)

\* CalendarView processRects: the filter on the displayed date range
InDateRange(rect) ==
    /\ rect.start < dateRangeLast + dayms
    /\ rect.end > dateRangeFirst

\* CalendarView: let processRects = $derived(getProcessBlocks(...).filter(...))
ProcessRects ==
    /\ logPath = "process"
    /\ pc = "rects"
    /\ processRects' = SelectSeq(getProcessBlocks(processEntries), InDateRange)
    /\ processIntervals' = <<>>
    /\ processNameToIndex' = <<>>
    /\ i' = 1
    /\ groupIndex' = 0
    /\ pc' = "lanes"
    /\ UNCHANGED <<zone, now, startDay, hours, logPath, rows, entries, start, end,
                   rects, currentRect, j, r, out, processEntries>>
    /\ UNCHANGED <<pageVars, extraVars>>

\* getUniqueProcessName: entry.name + "-" + entry.pid (the pid is a string
\* of digits, so the string determines both parts)
getUniqueProcessName(entry) == <<entry.name, entry.pid>>

\* `${entry.name}-${groupIndex}`
Group(entry, g) == <<entry.name, g>>

\* the positions of group in [...processIntervals.keys()]
GroupAt(intervals, group) ==
    {x \in 1..Len(intervals) : intervals[x].group = group}

\* a test that finds no overlap
OverlapsNever(entry, interval) == FALSE

\* entry.start < end && entry.end > start
Overlaps(entry, interval) ==
    entry.start < interval[2] /\ entry.end > interval[1]

\* canPlaceInGroup(entry, group)
canPlaceInGroup(entry, group) ==
    \A x \in GroupAt(processIntervals, group) :
        \A n \in 1..Len(processIntervals[x].intervals) :
            ~Overlaps(entry, processIntervals[x].intervals[n])

\* while (!canPlaceInGroup(entry, group)) { groupIndex++; group = ... }
LaneWhile ==
    /\ logPath = "process"
    /\ pc = "lanes"
    /\ i <= Len(processRects)
    /\ ~canPlaceInGroup(processRects[i].entry,
                        Group(processRects[i].entry, groupIndex))
    /\ groupIndex' = groupIndex + 1
    /\ UNCHANGED <<zone, now, startDay, hours, logPath, rows, entries, pc, i,
                   start, end, rects, currentRect, j, r, out, processEntries,
                   processRects, processIntervals, processNameToIndex>>
    /\ UNCHANGED <<pageVars, extraVars>>

\* if (!(processName in processNameToIndex)) processNameToIndex[processName]
\*     = [...processIntervals.keys()].indexOf(group)
StoreIndex(index, processName, at) ==
    IF processName \in DOMAIN index THEN index
    ELSE (processName :> at) @@ index

\* the rest of the loop body once a group is found: the interval of the
\* entry is pushed to the group and the index of the process is stored
LanePlace ==
    /\ logPath = "process"
    /\ pc = "lanes"
    /\ i <= Len(processRects)
    /\ LET entry == processRects[i].entry
           group == Group(entry, groupIndex)
           withGroup == IF GroupAt(processIntervals, group) = {}
                        THEN Append(processIntervals,
                                    [group |-> group, intervals |-> <<>>])
                        ELSE processIntervals
           x == CHOOSE x \in GroupAt(withGroup, group) : TRUE
       IN  /\ canPlaceInGroup(entry, group)
           /\ processIntervals' =
                 [withGroup EXCEPT ![x].intervals =
                     Append(@, <<entry.start, entry.end>>)]
           /\ processNameToIndex' =
                 StoreIndex(processNameToIndex, getUniqueProcessName(entry), x - 1)
    /\ i' = i + 1
    /\ groupIndex' = 0
    /\ UNCHANGED <<zone, now, startDay, hours, logPath, rows, entries, pc, start,
                   end, rects, currentRect, j, r, out, processEntries,
                   processRects>>
    /\ UNCHANGED <<pageVars, extraVars>>

\* return processNameToIndex
LaneReturn ==
    /\ logPath = "process"
    /\ pc = "lanes"
    /\ i > Len(processRects)
    /\ pc' = "render"
    /\ UNCHANGED <<zone, now, startDay, hours, logPath, rows, entries, i, start,
                   end, rects, currentRect, j, r, out, processVars>>
    /\ UNCHANGED <<pageVars, extraVars>>

\* processToXOffset(process) / processColWidth: the lane a rect of this
\* process is drawn in (0 when the process has no index)
LaneIndex(process) ==
    IF process \in DOMAIN processNameToIndex THEN processNameToIndex[process]
    ELSE 0

\* ------------------------------------------------------------------------
\* +page.svelte: the visible week, loadData and the focus reload
\* ------------------------------------------------------------------------
\* the log kinds loadData fetches
Logs == {"focused", "process", "system"}

\* a start of the week that goes back getDay() days, to the Sunday
setStartDateToSunday(t) == LocalDayStart(LocalDay(t) - getDay(t))

\* setStartDateToMonday(date): local date minus (getDay() + 6) % 7 days, at
\* 00:00 local time
setStartDateToMonday(t) ==
    LocalDayStart(LocalDay(t) - ((getDay(t) + 6) % 7))

\* newDate.setDate(newDate.getDate() + n): the same wall-clock time n
\* local days later
addDays(t, n) ==
    LET wall == t + ZoneOffset(t) + n * dayms
    IN  IF wall - zone.std < zone.trans THEN wall - zone.std
        ELSE wall - zone.dst

\* offsetWeek(offset): the new startDate, from the getTime() of the old
offsetWeek(t, weeks) == setStartDateToMonday(addDays(t, weeks * 7))

\* a Date object: its identity and its getTime()
Date(n, t) == [id |-> n, time |-> t]

\* let endDate = $derived(new Date(startDate.getTime() + 6 * 24 * 60 * 60 * 1000)):
\* a new object every time startDate is assigned
EndDate(sd) == Date(sd.id, sd.time + 6 * dayms)

\* a check that never finds the range changed
rangeAlwaysValid(f) == FALSE

\* loadData.rangeNotValid: start !== startDate || end !== endDate, a
\* comparison of object identity
rangeNotValid(f) == f.start # startDate \/ f.end # endDate

\* loadData(start, end): one load per log kind, all of request n
Requests(s, e, n) ==
    {[log |-> l, start |-> s, end |-> e, req |-> n] : l \in Logs}

\* what load() resolves to for a request: the entries of that range (the
\* model keeps which range and which request they answer)
Data(f) == <<[start |-> f.start.time, end |-> f.end.time, req |-> f.req]>>

\* +server.js toInfluxTime(val): a string of 13 digits is taken as ms and
\* becomes the ISO string of that instant (the model's epoch stands for a
\* recent UTC midnight, whose ms have 13 digits)
toInfluxTime(val) == TimeString(val)

\* +server.js: WHERE time >= '<start>' AND time <= '<end>', for a row
\* logged at t
whereClause(t, s, e) == t >= DateOf(s) /\ t <= DateOf(e)

\* load(): the query string start=<startDate.getTime()>&end=<endDate.getTime()>
\* of a request, as the endpoint reads it: whether a row logged at t is
\* in the response
Fetched(t, f) ==
    whereClause(t, toInfluxTime(f.start.time), toInfluxTime(f.end.time))

\* CalendarView dateRange: the local midnights of the `days` days that
\* start at startDate
dateRange(sd) == [d \in 1..days |-> LocalDayStart(LocalDay(sd.time) + d - 1)]

\* Date.now() when the page is mounted: Wednesday 10:00 of the week of
\* local day 1, in Asia/Singapore
PageNow == 3 * dayms + 2 * hourms

\* the week buttons: offsetWeek(offset), then the $effect that calls
\* loadData(startDate, endDate) for the new range
OffsetWeek(weeks) ==
    /\ logPath = "page"
    /\ requests < MaxLoads
    /\ LET sd == Date(requests + 1, offsetWeek(startDate.time, weeks))
       IN  /\ Abs(LocalDay(sd.time) - LocalDay(setStartDateToMonday(PageNow)))
                <= MaxWeeks * 7
           /\ startDate' = sd
           /\ endDate' = EndDate(sd)
           /\ fetches' = fetches \cup Requests(sd, EndDate(sd), requests + 1)
    /\ focusedEntries' = <<>>
    /\ processEntries' = <<>>
    /\ systemEntries' = <<>>
    /\ requests' = requests + 1
    /\ UNCHANGED <<zone, now, layoutVars, laneVars, extraVars, unhandled,
                   lastFocused, windowFocused,
                   blurredAt>>

\* the Today button: startDate = setStartDateToMonday(new Date()), then the
\* $effect that calls loadData(startDate, endDate)
Today ==
    /\ logPath = "page"
    /\ requests < MaxLoads
    /\ LET sd == Date(requests + 1, setStartDateToMonday(now))
       IN  /\ startDate' = sd
           /\ endDate' = EndDate(sd)
           /\ fetches' = fetches \cup Requests(sd, EndDate(sd), requests + 1)
    /\ requests' = requests + 1
    /\ UNCHANGED <<zone, now, layoutVars, laneVars, extraVars, unhandled,
                   focusedEntries,
                   processEntries, systemEntries, lastFocused, windowFocused,
                   blurredAt>>

\* the .then callback of one load: if (rangeNotValid()) return; xEntries = data
FetchResolve(f) ==
    /\ logPath = "page"
    /\ f \in fetches
    /\ fetches' = fetches \ {f}
    /\ focusedEntries' = IF f.log = "focused" /\ ~rangeNotValid(f) THEN Data(f)
                         ELSE focusedEntries
    /\ processEntries' = IF f.log = "process" /\ ~rangeNotValid(f) THEN Data(f)
                         ELSE processEntries
    /\ systemEntries' = IF f.log = "system" /\ ~rangeNotValid(f) THEN Data(f)
                        ELSE systemEntries
    /\ UNCHANGED <<zone, now, layoutVars, laneVars, extraVars, unhandled,
                   startDate, endDate,
                   requests, lastFocused, windowFocused, blurredAt>>

\* a load whose fetch (or response.text()) rejects: load() has no try and
\* loadData attaches no rejection handler to load(...).then(...), so the
\* callback of lines 120-131 does not run and the rejection is unhandled
FetchFail(f) ==
    /\ logPath = "page"
    /\ f \in fetches
    /\ Len(unhandled) < MaxFailures
    /\ fetches' = fetches \ {f}
    /\ unhandled' = Append(unhandled, f)
    /\ UNCHANGED <<zone, now, layoutVars, laneVars, extraVars,
                   startDate, endDate,
                   focusedEntries, processEntries, systemEntries, requests,
                   lastFocused, windowFocused, blurredAt>>

\* handleFocus: Date.now() - lastFocused > focusThreshold
reloadOnFocus == now - lastFocused > focusThreshold

\* the window's focus event: handleFocus()
HandleFocus ==
    /\ logPath = "page"
    /\ ~windowFocused
    /\ windowFocused' = TRUE
    /\ IF reloadOnFocus
       THEN /\ requests < MaxLoads
            /\ fetches' = fetches \cup Requests(startDate, endDate, requests + 1)
            /\ requests' = requests + 1
       ELSE UNCHANGED <<fetches, requests>>
    /\ lastFocused' = now
    /\ UNCHANGED <<zone, now, layoutVars, laneVars, extraVars, unhandled,
                   startDate, endDate,
                   focusedEntries, processEntries, systemEntries, blurredAt>>

\* the window loses focus (the page has no handler for it)
Blur ==
    /\ logPath = "page"
    /\ windowFocused
    /\ windowFocused' = FALSE
    /\ blurredAt' = now
    /\ UNCHANGED <<zone, now, layoutVars, laneVars, extraVars, unhandled,
                   startDate, endDate,
                   focusedEntries, processEntries, systemEntries, lastFocused,
                   fetches, requests>>

\* time passes
Tick ==
    /\ logPath = "page"
    /\ now + TickLength <= PageNow + MaxTicks * TickLength
    /\ now' = now + TickLength
    /\ UNCHANGED <<zone, layoutVars, laneVars, extraVars, unhandled,
                   startDate, endDate,
                   focusedEntries, processEntries, systemEntries, lastFocused,
                   fetches, requests, windowFocused, blurredAt>>

\* ------------------------------------------------------------------------
\* monitor.js: poll(), started by setInterval every POLL_INTERVAL
\* ------------------------------------------------------------------------
\* const POLL_INTERVAL = 60000
POLL_INTERVAL == 60000
\* const IDLE_THRESHOLD = 5 * 60 (seconds)
IDLE_THRESHOLD == 300

\* the pids of the processes that match PROCESS_SUBSTRINGS, and what
\* JSON.stringify makes of the state of one (name, cpu, memory, status,
\* started, unresponsive); "absent" where processStates has no such key
Pids == {1}
ProcessStates == {"absent", "running", "sleeping"}
\* JSON.stringify of what getFocusedWindow() returns: null or a window
Windows == {"null", "A", "B"}
\* how long after the last timer the next one fires: POLL_INTERVAL, or
\* longer when the machine slept in between
Gaps == {POLL_INTERVAL, 3 * POLL_INTERVAL}
\* Date.now() when monitor.js is loaded
MonitorStart == dayms

\* the smallest of a set of numbers (for ... in visits integer keys in
\* ascending order)
SetMin(S) == CHOOSE x \in S : \A y \in S : x <= y

\* module state after monitor.js is loaded (lines 117-124). lastSleepState
\* is only tested for truth, so its initial null is FALSE here; null of
\* lastSleepStart is Undefined (a real ms timestamp is never 0)
MonitorLoaded ==
    [lastFocused |-> "undefined",
     lastIdleState |-> FALSE,
     lastSleepState |-> FALSE,
     lastProcessStates |-> [pid \in Pids |-> "absent"],
     lastPollTime |-> MonitorStart,
     lastSleepStart |-> Undefined]

\* A running poll and the module state it works on are passed as
\* s = [g |-> module state, p |-> the poll's locals, w |-> rows written].
\* A row is in w from the moment client.write is called with it.

\* logSystemState(isIdle, sleepState, customTimestamp)
logSystemState(s, isIdle, sleepState, ts) ==
    [s EXCEPT !.w = Append(@, [m |-> "system", isIdle |-> isIdle,
                               sleepState |-> sleepState, time |-> ts,
                               poll |-> s.p.id])]

\* logFocusedWindow(focused): if (!focused) return
logFocusedWindow(s, focused) ==
    IF focused = "null" THEN s
    ELSE [s EXCEPT !.w = Append(@, [m |-> "focused", title |-> focused,
                                    poll |-> s.p.id])]

\* logProcessStates({ [pid]: curr })
logProcessStates(s, pid, curr) ==
    [s EXCEPT !.w = Append(@, [m |-> "process", pid |-> pid, state |-> curr,
                               poll |-> s.p.id])]

\* lines 220 and 235: JSON.stringify(a) !== JSON.stringify(b) (!prev is
\* the case prev = "absent", which differs from every state a key has)
changed(prev, curr) == prev # curr

\* lines 232-239: the loop over the pids not yet visited, up to the next
\* await of logProcessStates or to the end of poll
RECURSIVE forPid(_)
forPid(s) ==
    IF s.p.rest = {}
    THEN [s EXCEPT !.g.lastProcessStates = s.p.processStates, !.p.pc = "done"]
    ELSE LET pid == SetMin(s.p.rest)
             prev == s.g.lastProcessStates[pid]
             curr == s.p.processStates[pid]
             s1 == [s EXCEPT !.p.rest = @ \ {pid}]
         IN  IF changed(prev, curr)
             THEN [logProcessStates(s1, pid, curr) EXCEPT !.p.pc = "a236"]
             ELSE forPid(s1)

\* lines 220-226: from the comparison of focused to the next await
at220(s) ==
    IF changed(s.g.lastFocused, s.p.focused)
    THEN [logFocusedWindow(s, s.p.focused) EXCEPT !.p.pc = "a221"]
    ELSE [s EXCEPT !.p.pc = "a226"]

\* lines 205-218: lastPollTime = now, the idle state, up to the next
\* await; idleSeconds is 0 or IDLE_THRESHOLD
at205(s, idleState) ==
    LET s1 == [s EXCEPT !.g.lastPollTime = s.p.now, !.p.idleState = idleState]
        idleSeconds == IF idleState THEN IDLE_THRESHOLD ELSE 0
    IN  IF idleState # s.g.lastIdleState
        THEN IF ~s.p.sleepState
             THEN [logSystemState(s1, idleState, "none",
                                  s.p.now - idleSeconds * secms)
                       EXCEPT !.p.pc = "a212"]
             ELSE [s1 EXCEPT !.g.lastIdleState = idleState, !.p.pc = "a218"]
        ELSE [s1 EXCEPT !.p.pc = "a218"]

\* lines 196-204: sleep_stop
at196(s, idleState) ==
    IF ~s.p.sleepState /\ s.g.lastSleepState /\ s.g.lastSleepStart # Undefined
    THEN [logSystemState(s, s.g.lastIdleState, "sleep_stop", s.p.now)
              EXCEPT !.p.pc = "a197"]
    ELSE at205(s, idleState)

\* lines 187-195: sleep_start
at187(s, idleState) ==
    IF s.p.sleepState /\ ~s.g.lastSleepState
    THEN [logSystemState(s, s.g.lastIdleState, "sleep_start", s.g.lastPollTime)
              EXCEPT !.p.pc = "a188"]
    ELSE at196(s, idleState)

\* the state a step of poll k works on, and its effect
PollState(k) == [g |-> monitor, p |-> polls[k], w |-> written]
PollStep(k, s) ==
    /\ monitor' = s.g
    /\ polls' = [polls EXCEPT ![k] = s.p]
    /\ written' = s.w

\* what no step of the monitor changes
notMonitorVars == <<zone, layoutVars, processVars, pageVars, csvVars, viewVars,
                   statsVars>>

\* setInterval(() => poll(), POLL_INTERVAL): the timer fires and poll runs
\* lines 182-187, and on to its first await
TimerFires(gap, idleState) ==
    /\ logPath = "monitor"
    /\ Len(polls) < MaxPolls
    /\ now' = now + gap
    /\ LET p == [id |-> Len(polls) + 1, pc |-> "start", now |-> now',
                 sleepState |-> now' - monitor.lastPollTime > POLL_INTERVAL * 2,
                 idleState |-> FALSE, focused |-> "undefined",
                 processStates |-> [pid \in Pids |-> "absent"], rest |-> {}]
           s == at187([g |-> monitor, p |-> p, w |-> written], idleState)
       IN  /\ monitor' = s.g
           /\ polls' = Append(polls, s.p)
           /\ written' = s.w
    /\ UNCHANGED notMonitorVars

\* await logSystemState(..., "sleep_start", ...) returns: lines 193-194
Resume188(k, idleState) ==
    /\ logPath = "monitor"
    /\ polls[k].pc = "a188"
    /\ LET s == PollState(k)
       IN  PollStep(k, at196([s EXCEPT !.g.lastSleepStart = s.g.lastPollTime,
                                      !.g.lastSleepState = s.p.sleepState],
                             idleState))
    /\ UNCHANGED <<now, notMonitorVars>>

\* await logSystemState(..., "sleep_stop", ...) returns: lines 202-203
Resume197(k, idleState) ==
    /\ logPath = "monitor"
    /\ polls[k].pc = "a197"
    /\ LET s == PollState(k)
       IN  PollStep(k, at205([s EXCEPT !.g.lastSleepStart = Undefined,
                                      !.g.lastSleepState = s.p.sleepState],
                             idleState))
    /\ UNCHANGED <<now, notMonitorVars>>

\* await logSystemState(idleState, sleepState, ...) returns: line 214
Resume212(k) ==
    /\ logPath = "monitor"
    /\ polls[k].pc = "a212"
    /\ LET s == PollState(k)
       IN  PollStep(k, [s EXCEPT !.g.lastIdleState = s.p.idleState,
                                 !.p.pc = "a218"])
    /\ UNCHANGED <<now, notMonitorVars>>

\* await getFocusedWindow() returns
Resume218(k, focused) ==
    /\ logPath = "monitor"
    /\ polls[k].pc = "a218"
    /\ PollStep(k, [PollState(k) EXCEPT !.p.focused = focused, !.p.pc = "a219"])
    /\ UNCHANGED <<now, notMonitorVars>>

\* await getProcessStates() returns
Resume219(k, processStates) ==
    /\ logPath = "monitor"
    /\ polls[k].pc = "a219"
    /\ PollStep(k, at220([PollState(k) EXCEPT !.p.processStates = processStates]))
    /\ UNCHANGED <<now, notMonitorVars>>

\* await logFocusedWindow(focused) returns: line 222
Resume221(k) ==
    /\ logPath = "monitor"
    /\ polls[k].pc = "a221"
    /\ LET s == PollState(k)
       IN  PollStep(k, [s EXCEPT !.g.lastFocused = s.p.focused, !.p.pc = "a226"])
    /\ UNCHANGED <<now, notMonitorVars>>

\* await getOpenWindows() returns (logOpenWindows returns at once): the loop
\* of line 232 starts
Resume226(k) ==
    /\ logPath = "monitor"
    /\ polls[k].pc = "a226"
    /\ LET s == PollState(k)
       IN  PollStep(k, forPid([s EXCEPT !.p.rest =
                                  {pid \in Pids : s.p.processStates[pid] # "absent"}]))
    /\ UNCHANGED <<now, notMonitorVars>>

\* await logProcessStates({ [pid]: curr }) returns: the loop goes on
Resume236(k) ==
    /\ logPath = "monitor"
    /\ polls[k].pc = "a236"
    /\ PollStep(k, forPid(PollState(k)))
    /\ UNCHANGED <<now, notMonitorVars>>

\* the monitor before its first poll
MonitorInit ==
    /\ monitor = MonitorLoaded
    /\ polls = <<>>
    /\ written = <<>>

\* ------------------------------------------------------------------------
\* The CSV between GET /logs/[log] and load()
\* ------------------------------------------------------------------------
\* A string is the sequence of its characters. The characters that matter
\* to the format, and one that does not
Chars == {"a", ",", "\"", "\\"}

\* JSON.stringify(v) of a string without its outer quotes: a double quote
\* becomes \" and a backslash becomes \\
RECURSIVE jsonEscape(_)
jsonEscape(v) ==
    IF v = <<>> THEN <<>>
    ELSE (IF Head(v) \in {"\"", "\\"} THEN <<"\\", Head(v)>> ELSE <<Head(v)>>)
             \o jsonEscape(Tail(v))

\* +server.js:129  JSON.stringify(v ?? '') of a string value
stringify(v) == <<"\"">> \o jsonEscape(v) \o <<"\"">>

\* values.join(',')
RECURSIVE join(_)
join(values) ==
    IF values = <<>> THEN <<>>
    ELSE IF Len(values) = 1 THEN values[1]
    ELSE values[1] \o <<",">> \o join(Tail(values))

\* +server.js:129  one line of the response: row.map(stringify).join(',')
csvLine(row) == join([c \in 1..Len(row) |-> stringify(row[c])])

\* line.split(','): the pieces between the commas
RECURSIVE split(_)
split(line) ==
    IF \A c \in 1..Len(line) : line[c] # "," THEN <<line>>
    ELSE LET c == CHOOSE c \in 1..Len(line) :
                      line[c] = "," /\ \A b \in 1..c - 1 : line[b] # ","
         IN  <<SubSeq(line, 1, c - 1)>> \o split(SubSeq(line, c + 1, Len(line)))

\* value.replace(/""/g, '"'): every pair of double quotes, from the left,
\* becomes one
RECURSIVE unescape(_)
unescape(v) ==
    IF Len(v) < 2 THEN v
    ELSE IF v[1] = "\"" /\ v[2] = "\"" THEN <<"\"">> \o unescape(SubSeq(v, 3, Len(v)))
    ELSE <<v[1]>> \o unescape(Tail(v))

\* load(), lines 27-32: a value that starts and ends with a double quote
\* loses them (slice(1, -1)) and has "" unescaped
unquote(value) ==
    IF Len(value) >= 1 /\ value[1] = "\"" /\ value[Len(value)] = "\""
    THEN unescape(SubSeq(value, 2, Len(value) - 1))
    ELSE value

\* load(), lines 25-39: the values of one line, in header order
parseLine(line) ==
    LET values == split(line)
    IN  [c \in 1..Len(values) |-> unquote(values[c])]

\* the rows the endpoint may have to write: the title and the process of a
\* focused row, each of at most MaxChars characters
CsvValues == UNION {[1..n -> Chars] : n \in 0..MaxChars}
CsvRows == [1..2 -> CsvValues]

\* the endpoint has not answered, load() has not parsed
CsvInit ==
    /\ csvRow = <<>>
    /\ csvText = <<>>
    /\ csvEntry = <<>>

\* GET: the line of the row is written to the response
EndpointWrites ==
    /\ logPath = "csv"
    /\ csvText = <<>>
    /\ csvText' = csvLine(csvRow)
    /\ UNCHANGED <<zone, now, layoutVars, processVars, pageVars, monitorVars,
                   viewVars, statsVars, csvRow, csvEntry>>

\* load(): the line is split and its values are unquoted
LoadParses ==
    /\ logPath = "csv"
    /\ csvText # <<>>
    /\ csvEntry = <<>>
    /\ csvEntry' = parseLine(csvText)
    /\ UNCHANGED <<zone, now, layoutVars, processVars, pageVars, monitorVars,
                   viewVars, statsVars, csvRow, csvText>>

\* ------------------------------------------------------------------------
\* CalendarView: zoom (handleScroll) and pan (handleMouseMove)
\* ------------------------------------------------------------------------
\* const labelHeight = 24
labelHeight == 24
\* container.clientHeight of the page's calendar, in px
svgHeight == 480

\* The displayed window is kept in whole seconds (the code keeps ms in
\* doubles); a quotient is rounded down to the second.
hour == hourms \div secms

\* timeZoneOffset, in the unit of the window
viewOffset == timeZoneOffset \div secms

\* the px between the ends of the range of timeAxis
axisHeight == svgHeight - 2 * labelHeight

\* event.clientY - container.getBoundingClientRect().top: the top of the
\* container, the middle and the end of the axis, the bottom of the container
CursorYs == {0, axisHeight \div 2, axisHeight, svgHeight}
\* event.deltaY of one wheel event: a notch in or out, a fast flick in
WheelDeltas == {-100, 100, -450}
\* px the mouse moved between two mousemove events of a pan
PanDeltas == {-100, 100}

\* Math.max and Math.min
Max(a, b) == IF a > b THEN a ELSE b

\* timeAxis.invert(centerY + timeAxis(displayedHourStart)): timeAxis maps
\* [offset, range + offset] onto [labelHeight, svgHeight - labelHeight]
centerHour(d, centerY) ==
    d.start + (centerY * (d.end - d.start)) \div axisHeight

\* lines 95-96: Math.max(0 + timeZoneOffset, newStart),
\* Math.min(24 * hourms + timeZoneOffset, newEnd)
clamp(d, newStart, newEnd) ==
    [start |-> Max(viewOffset, newStart),
     end |-> Min(24 * hour + viewOffset, newEnd)]

\* handleScroll, lines 79-96. scaleFactor is num / den: (500 + delta) / 500,
\* or minRange / range when that would leave less than minRange
zoomed(d, delta, centerY) ==
    LET c == centerHour(d, centerY)
        range == d.end - d.start
        tooSmall == range * (500 + delta) < hour * 500
        num == IF tooSmall THEN hour ELSE 500 + delta
        den == IF tooSmall THEN range ELSE 500
        newStart == c + ((d.start - c) * num) \div den
        newEnd == c + ((d.end - c) * num) \div den
    IN  clamp(d, newStart, newEnd)

\* handleMouseMove, lines 203-223 (isMiddlePanning is true)
panned(d, deltaY) ==
    LET range == d.end - d.start
        msDelta == (-deltaY * range) \div axisHeight
    IN  IF d.start + msDelta < viewOffset
        THEN [start |-> viewOffset, end |-> viewOffset + range]
        ELSE IF d.end + msDelta > 24 * hour + viewOffset
        THEN [start |-> 24 * hour + viewOffset - range,
              end |-> 24 * hour + viewOffset]
        ELSE [start |-> d.start + msDelta, end |-> d.end + msDelta]

\* the view before any event: nothing displayed yet
ViewInit ==
    /\ displayed = [start |-> 0, end |-> 0]
    /\ gestures = <<>>

\* the wheel turns over the calendar
HandleScroll(delta, centerY) ==
    /\ logPath = "view"
    /\ Len(gestures) < MaxGestures
    \* a window that is empty or upside down is not followed further
    /\ displayed.end - displayed.start > 0
    /\ displayed' = zoomed(displayed, delta, centerY)
    /\ gestures' = Append(gestures, "zoom")
    /\ UNCHANGED <<zone, now, layoutVars, processVars, pageVars, monitorVars,
                   csvVars, statsVars>>

\* the mouse moves with the middle button down
HandleMouseMove(deltaY) ==
    /\ logPath = "view"
    /\ Len(gestures) < MaxGestures
    /\ displayed' = panned(displayed, deltaY)
    /\ gestures' = Append(gestures, "pan")
    /\ UNCHANGED <<zone, now, layoutVars, processVars, pageVars, monitorVars,
                   csvVars, statsVars>>

\* ------------------------------------------------------------------------
\* HighlightStats.svelte
\* ------------------------------------------------------------------------
\* timeRangeForStats: [timeRange[0].getTime(),
\*                     Math.min(timeRange[1].getTime(), Date.now())]
timeRangeForStats == <<timeRange[1], Min(timeRange[2], now)>>

\* lines 36-37 and 74-75: the entry clipped to the range of the stats; an
\* entry without end runs to the end of the range
clipped(entry, range) ==
    [start |-> Max(entry.start, range[1]),
     end |-> Min(IF entry.end = Undefined THEN range[2] ELSE entry.end, range[2])]

\* lines 39 and 77: if (start > range[1] || end < range[0]) continue
outside(interval, range) == interval.start > range[2] \/ interval.end < range[1]

\* sum of the lengths of a sequence of intervals
RECURSIVE totalLength(_)
totalLength(intervals) ==
    IF intervals = <<>> THEN 0
    ELSE intervals[1].end - intervals[1].start + totalLength(Tail(intervals))

\* lines 24-47
RECURSIVE sleepAndIdleIntervals(_, _)
sleepAndIdleIntervals(system, range) ==
    IF system = <<>> THEN <<>>
    ELSE LET entry == Head(system)
             interval == clipped(entry, range)
             rest == sleepAndIdleIntervals(Tail(system), range)
         IN  IF ~(entry.isIdle \/ entry.sleepState = "sleep_start") THEN rest
             ELSE IF outside(interval, range) THEN rest
             ELSE <<interval>> \o rest

\* lines 50-61
activeTime(system, range) ==
    range[2] - range[1] - totalLength(sleepAndIdleIntervals(system, range))

\* lines 87-101: what is left of one interval when a sleep interval is cut
\* out of it
cutOut(interval, sleepInterval) ==
    IF interval.end <= sleepInterval.start \/ interval.start >= sleepInterval.end
    THEN <<interval>>
    ELSE (IF interval.start < sleepInterval.start
          THEN <<[start |-> interval.start, end |-> sleepInterval.start]>>
          ELSE <<>>)
         \o (IF interval.end > sleepInterval.end
             THEN <<[start |-> sleepInterval.end, end |-> interval.end]>>
             ELSE <<>>)

\* intervalsToAdd.flatMap(...) for one sleep interval
RECURSIVE flatMapCut(_, _)
flatMapCut(intervals, sleepInterval) ==
    IF intervals = <<>> THEN <<>>
    ELSE cutOut(Head(intervals), sleepInterval)
             \o flatMapCut(Tail(intervals), sleepInterval)

\* lines 85-102: the loop over sleepAndIdleIntervals
RECURSIVE cutAll(_, _)
cutAll(intervals, sleeps) ==
    IF sleeps = <<>> THEN intervals
    ELSE cutAll(flatMapCut(intervals, Head(sleeps)), Tail(sleeps))

\* lines 73-104: highlightedIntervals; entry.highlighted is what
\* isHighlighted(entry, highlightTerms) answers for the entry
RECURSIVE highlightedIntervals(_, _, _)
highlightedIntervals(focused, sleeps, range) ==
    IF focused = <<>> THEN <<>>
    ELSE LET entry == Head(focused)
             interval == clipped(entry, range)
             rest == highlightedIntervals(Tail(focused), sleeps, range)
         IN  IF outside(interval, range) THEN rest
             ELSE IF ~entry.highlighted THEN rest
             ELSE cutAll(<<interval>>, sleeps) \o rest

\* lines 64-107
highlightedTime(d, range) ==
    totalLength(highlightedIntervals(d.focused,
                                     sleepAndIdleIntervals(d.system, range),
                                     range))

\* nothing derived yet
NoStats == [derived |-> FALSE]

\* the component is not mounted
StatsInit ==
    /\ data = [system |-> <<>>, focused |-> <<>>]
    /\ timeRange = <<0, 0>>
    /\ stats = NoStats

\* the $derived values are computed for the props; they are read by the
\* markup only, inside {#if data.system.length}
Derive ==
    /\ logPath = "stats"
    /\ stats = NoStats
    /\ Len(data.system) > 0
    /\ LET range == timeRangeForStats
           sleeps == sleepAndIdleIntervals(data.system, range)
       IN  stats' = [derived |-> TRUE,
                     timeRangeForStats |-> range,
                     sleepAndIdleIntervals |-> sleeps,
                     activeTime |-> activeTime(data.system, range),
                     highlightedIntervals |->
                         highlightedIntervals(data.focused, sleeps, range),
                     highlightedTime |-> highlightedTime(data, range)]
    /\ UNCHANGED <<zone, now, layoutVars, processVars, pageVars, monitorVars,
                   csvVars, viewVars, data, timeRange>>

\* the ranges the parent passes as timeRange: the hours 1 to 4 and 2 to 5
StatsRanges == {<<hourms, 4 * hourms>>, <<2 * hourms, 5 * hourms>>}

\* the parent passes another timeRange: the $derived values are stale and
\* are computed again when they are read
SetTimeRange(range) ==
    /\ logPath = "stats"
    /\ range # timeRange
    /\ timeRange' = range
    /\ stats' = NoStats
    /\ UNCHANGED <<zone, now, layoutVars, processVars, pageVars, monitorVars,
                   csvVars, viewVars, data>>

\* ------------------------------------------------------------------------
\* Inputs
\* ------------------------------------------------------------------------
\* Instants of the focused log (UTC ms). With the zones above they are, in
\* local time: 09:00, 09:30, 17:00, 23:00, 00:00:00.500 and 01:00 in
\* Singapore; 23:00 and 01:00 in New York; 23:30 and 01:00 in Sydney.
FocusedTimes ==
    {dayms + hourms, dayms + hourms + 1800000, dayms + 4 * hourms,
     dayms + 6 * hourms, dayms + 9 * hourms, dayms + 13 * hourms + 1800000,
     dayms + 15 * hourms, dayms + 16 * hourms + 500, dayms + 17 * hourms}

\* Instants of the system log: 20:00, 23:00 and 01:00 in Singapore
SystemTimes == {dayms + 12 * hourms, dayms + 15 * hourms, dayms + 17 * hourms}

\* Date.now(): 18:00 of local day 1 in Singapore, or a day and a half later
Nows == {dayms + 10 * hourms, 2 * dayms + 18 * hourms}

Titles == {"A", "B"}

FocusedRow ==
    [time : {TimeString(t) : t \in FocusedTimes}, title : Titles,
     process : {"app.exe"}, path : {""}, url : {""}]

SystemRow ==
    [time : {TimeString(t) : t \in SystemTimes}, isIdle : {"true", "false"},
     isLocked : {"false"}, sleepState : {"false", "sleep_start", "sleep_stop"}]

SeqsUpTo(S, n) == UNION {[1..m -> S] : m \in 0..n}

\* the endpoint answers ORDER BY time ASC, and no row is later than now
Ordered(rs) ==
    /\ \A k \in 1..Len(rs) : DateOf(rs[k].time) <= now
    /\ \A k \in 1..Len(rs) - 1 : DateOf(rs[k].time) <= DateOf(rs[k + 1].time)

\* the poller writes a focused row when the focused window changed
Changes(rs) == \A k \in 1..Len(rs) - 1 : rs[k].title # rs[k + 1].title

Init ==
    /\ zone \in Zones
    /\ now \in Nows
    /\ logPath \in {"focused", "system"}
    /\ IF logPath = "focused"
       THEN /\ startDay \in {-5, 1}
            /\ hours \in {<<0, 24>>, <<9, 18>>}
            /\ rows \in {rs \in SeqsUpTo(FocusedRow, MaxEntries) :
                            Ordered(rs) /\ Changes(rs)}
       ELSE /\ startDay = 1
            /\ hours = <<0, 24>>
            /\ rows \in {rs \in SeqsUpTo(SystemRow, MaxEntries) : Ordered(rs)}
    /\ entries = <<>>
    /\ pc = "load"
    /\ i = 0
    /\ start = 0
    /\ end = 0
    /\ rects = <<>>
    /\ currentRect = NoRect
    /\ j = 0
    /\ r = <<>>
    /\ out = <<>>
    /\ processEntries = <<>>
    /\ processRects = <<>>
    /\ processIntervals = <<>>
    /\ processNameToIndex = <<>>
    /\ groupIndex = 0
    /\ startDate = Date(1, 0)
    /\ endDate = EndDate(startDate)
    /\ focusedEntries = <<>>
    /\ systemEntries = <<>>
    /\ lastFocused = 0
    /\ fetches = {}
    /\ requests = 0
    /\ windowFocused = TRUE
    /\ blurredAt = 0
    /\ unhandled = <<>>
    /\ MonitorInit
    /\ CsvInit
    /\ ViewInit
    /\ StatsInit

\* Instants of the process log inside the displayed week, in
\* Asia/Singapore: Monday (local day 1) 09:00 and 10:00, Tuesday 07:00
\* (still Monday in UTC), 09:00, 09:30 and 10:00, Wednesday 09:00 and 10:00
WeekTimes ==
    {dayms + hourms, dayms + 2 * hourms,
     dayms + 23 * hourms, 2 * dayms + hourms, 2 * dayms + hourms + 1800000,
     2 * dayms + 2 * hourms, 3 * dayms + hourms, 3 * dayms + 2 * hourms}

\* 09:00 of the Monday a week later
NextWeekTime == 8 * dayms + hourms

\* the instants a process log is made of: any of the week, or a short log
\* that reaches into the next week
ProcessTimeSets ==
    {T \in SUBSET (WeekTimes \cup {NextWeekTime}) :
        /\ Cardinality(T) <= MaxSamples
        /\ NextWeekTime \in T => Cardinality(T) <= MaxLongSamples}

\* Date.now() of a process run
ProcessNow == 8 * dayms + 2 * hourms

\* the processes sampled: two instances of a.exe, and b.exe, which got
\* pid 1 again at another started time
ProcessIds ==
    {[pid |-> "1", name |-> "a.exe", started |-> 0],
     [pid |-> "2", name |-> "a.exe", started |-> 0],
     [pid |-> "1", name |-> "b.exe", started |-> hourms]}

\* the instants of S in ascending order
RECURSIVE SortedSeq(_)
SortedSeq(S) ==
    IF S = {} THEN <<>>
    ELSE LET m == CHOOSE x \in S : \A y \in S : x <= y
         IN  <<m>> \o SortedSeq(S \ {m})

\* the process log with a sample of ids[k] at ts[k]; cpu and memory carry
\* the position of the row, so that every sample is recognisable
ProcessLog(ts, ids) ==
    [k \in 1..Len(ts) |->
        [time |-> TimeString(ts[k]), pid |-> ids[k].pid, name |-> ids[k].name,
         cpu |-> k, memory |-> 100 + k,
         started |-> TimeString(ids[k].started)]]

InitProcess ==
    /\ zone = Singapore
    /\ now = ProcessNow
    /\ logPath = "process"
    /\ startDay = 1
    /\ hours = <<0, 24>>
    /\ \E T \in ProcessTimeSets :
          \E ids \in [1..Cardinality(T) -> ProcessIds] :
              rows = ProcessLog(SortedSeq(T), ids)
    /\ entries = <<>>
    /\ pc = "load"
    /\ i = 0
    /\ start = 0
    /\ end = 0
    /\ rects = <<>>
    /\ currentRect = NoRect
    /\ j = 0
    /\ r = <<>>
    /\ out = <<>>
    /\ processEntries = <<>>
    /\ processRects = <<>>
    /\ processIntervals = <<>>
    /\ processNameToIndex = <<>>
    /\ groupIndex = 0
    /\ startDate = Date(1, 0)
    /\ endDate = EndDate(startDate)
    /\ focusedEntries = <<>>
    /\ systemEntries = <<>>
    /\ lastFocused = 0
    /\ fetches = {}
    /\ requests = 0
    /\ windowFocused = TRUE
    /\ blurredAt = 0
    /\ unhandled = <<>>
    /\ MonitorInit
    /\ CsvInit
    /\ ViewInit
    /\ StatsInit

NextProcess ==
    \/ LoadProcess
    \/ ProcessRects
    \/ LaneWhile
    \/ LanePlace
    \/ LaneReturn

SpecProcess == InitProcess /\ [][NextProcess]_vars

InitPage ==
    /\ zone = Singapore
    /\ now = PageNow
    /\ logPath = "page"
    /\ startDay = 1
    /\ hours = <<0, 24>>
    /\ rows = <<>>
    /\ entries = <<>>
    /\ pc = "page"
    /\ i = 0
    /\ start = 0
    /\ end = 0
    /\ rects = <<>>
    /\ currentRect = NoRect
    /\ j = 0
    /\ r = <<>>
    /\ out = <<>>
    /\ processEntries = <<>>
    /\ processRects = <<>>
    /\ processIntervals = <<>>
    /\ processNameToIndex = <<>>
    /\ groupIndex = 0
    /\ startDate = Date(1, setStartDateToMonday(now))
    /\ endDate = EndDate(startDate)
    /\ focusedEntries = <<>>
    /\ systemEntries = <<>>
    /\ lastFocused = now
    /\ fetches = Requests(startDate, endDate, 1)
    /\ requests = 1
    /\ windowFocused \in BOOLEAN
    /\ blurredAt = now
    /\ unhandled = <<>>
    /\ MonitorInit
    /\ CsvInit
    /\ ViewInit
    /\ StatsInit

\* The week navigation alone, in every zone and mounted at any time of the
\* weeks around the zone's clock change
WeekNows == {d * dayms + h * hourms : d \in 0..8, h \in {0, 6, 12, 18}}

InitWeek ==
    /\ zone \in Zones
    /\ now \in WeekNows
    /\ logPath = "page"
    /\ startDay = 1
    /\ hours = <<0, 24>>
    /\ rows = <<>>
    /\ entries = <<>>
    /\ pc = "page"
    /\ i = 0
    /\ start = 0
    /\ end = 0
    /\ rects = <<>>
    /\ currentRect = NoRect
    /\ j = 0
    /\ r = <<>>
    /\ out = <<>>
    /\ processEntries = <<>>
    /\ processRects = <<>>
    /\ processIntervals = <<>>
    /\ processNameToIndex = <<>>
    /\ groupIndex = 0
    /\ startDate = Date(1, setStartDateToMonday(now))
    /\ endDate = EndDate(startDate)
    /\ focusedEntries = <<>>
    /\ systemEntries = <<>>
    /\ lastFocused = now
    /\ fetches = Requests(startDate, endDate, 1)
    /\ requests = 1
    /\ windowFocused = TRUE
    /\ blurredAt = now
    /\ unhandled = <<>>
    /\ MonitorInit
    /\ CsvInit
    /\ ViewInit
    /\ StatsInit

NextWeek ==
    \/ \E weeks \in {-1, 1} : OffsetWeek(weeks)
    \/ Today

SpecWeek == InitWeek /\ [][NextWeek]_vars

\* The monitor alone: the page and the layout are not running
InitMonitor ==
    /\ zone = Singapore
    /\ now = MonitorStart
    /\ logPath = "monitor"
    /\ startDay = 1
    /\ hours = <<0, 24>>
    /\ rows = <<>>
    /\ entries = <<>>
    /\ pc = "monitor"
    /\ i = 0
    /\ start = 0
    /\ end = 0
    /\ rects = <<>>
    /\ currentRect = NoRect
    /\ j = 0
    /\ r = <<>>
    /\ out = <<>>
    /\ processEntries = <<>>
    /\ processRects = <<>>
    /\ processIntervals = <<>>
    /\ processNameToIndex = <<>>
    /\ groupIndex = 0
    /\ startDate = Date(1, 0)
    /\ endDate = EndDate(startDate)
    /\ focusedEntries = <<>>
    /\ systemEntries = <<>>
    /\ lastFocused = 0
    /\ fetches = {}
    /\ requests = 0
    /\ windowFocused = TRUE
    /\ blurredAt = 0
    /\ unhandled = <<>>
    /\ MonitorInit
    /\ CsvInit
    /\ ViewInit
    /\ StatsInit

NextMonitor ==
    \/ \E gap \in Gaps, idleState \in BOOLEAN : TimerFires(gap, idleState)
    \/ \E k \in 1..Len(polls), idleState \in BOOLEAN : Resume188(k, idleState)
    \/ \E k \in 1..Len(polls), idleState \in BOOLEAN : Resume197(k, idleState)
    \/ \E k \in 1..Len(polls) : Resume212(k)
    \/ \E k \in 1..Len(polls), focused \in Windows : Resume218(k, focused)
    \/ \E k \in 1..Len(polls), processStates \in [Pids -> ProcessStates] :
           Resume219(k, processStates)
    \/ \E k \in 1..Len(polls) : Resume221(k)
    \/ \E k \in 1..Len(polls) : Resume226(k)
    \/ \E k \in 1..Len(polls) : Resume236(k)

SpecMonitor == InitMonitor /\ [][NextMonitor]_vars

\* The CSV alone: a row, its line, what load() reads
InitCsv ==
    /\ zone = Singapore
    /\ now = 0
    /\ logPath = "csv"
    /\ startDay = 1
    /\ hours = <<0, 24>>
    /\ rows = <<>>
    /\ entries = <<>>
    /\ pc = "csv"
    /\ i = 0
    /\ start = 0
    /\ end = 0
    /\ rects = <<>>
    /\ currentRect = NoRect
    /\ j = 0
    /\ r = <<>>
    /\ out = <<>>
    /\ processEntries = <<>>
    /\ processRects = <<>>
    /\ processIntervals = <<>>
    /\ processNameToIndex = <<>>
    /\ groupIndex = 0
    /\ startDate = Date(1, 0)
    /\ endDate = EndDate(startDate)
    /\ focusedEntries = <<>>
    /\ systemEntries = <<>>
    /\ lastFocused = 0
    /\ fetches = {}
    /\ requests = 0
    /\ windowFocused = TRUE
    /\ blurredAt = 0
    /\ unhandled = <<>>
    /\ MonitorInit
    /\ csvRow \in CsvRows
    /\ csvText = <<>>
    /\ csvEntry = <<>>
    /\ ViewInit
    /\ StatsInit

NextCsv ==
    \/ EndpointWrites
    \/ LoadParses

SpecCsv == InitCsv /\ [][NextCsv]_vars

\* The view alone, in every zone, with the default props (0 to 24), with
\* those the page passes (7 to 22) and with a late evening (22 to 24)
InitView ==
    /\ zone \in Zones
    /\ now = PageNow
    /\ logPath = "view"
    /\ startDay = 1
    /\ hours \in {<<0, 24>>, <<7, 22>>, <<22, 24>>}
    /\ rows = <<>>
    /\ entries = <<>>
    /\ pc = "view"
    /\ i = 0
    /\ start = 0
    /\ end = 0
    /\ rects = <<>>
    /\ currentRect = NoRect
    /\ j = 0
    /\ r = <<>>
    /\ out = <<>>
    /\ processEntries = <<>>
    /\ processRects = <<>>
    /\ processIntervals = <<>>
    /\ processNameToIndex = <<>>
    /\ groupIndex = 0
    /\ startDate = Date(1, 0)
    /\ endDate = EndDate(startDate)
    /\ focusedEntries = <<>>
    /\ systemEntries = <<>>
    /\ lastFocused = 0
    /\ fetches = {}
    /\ requests = 0
    /\ windowFocused = TRUE
    /\ blurredAt = 0
    /\ unhandled = <<>>
    /\ MonitorInit
    /\ CsvInit
    /\ displayed = [start |-> displayedHourStart \div secms,
                    end |-> displayedHourEnd \div secms]
    /\ gestures = <<>>
    /\ StatsInit

NextView ==
    \/ \E delta \in WheelDeltas, centerY \in CursorYs : HandleScroll(delta, centerY)
    \/ \E deltaY \in PanDeltas : HandleMouseMove(deltaY)

SpecView == InitView /\ [][NextView]_vars

\* instants of the logs of the stats: the hours 0 to 5 of a day
StatsTimes == {h * hourms : h \in 0..5}

\* rows in timestamp order, each ending where the next starts, the last
\* one open
Consecutive(es) ==
    [k \in 1..Len(es) |->
        [es[k] EXCEPT !.end = IF k < Len(es) THEN es[k + 1].start ELSE Undefined]]

SystemKinds ==
    {[isIdle |-> FALSE, sleepState |-> "none"],
     [isIdle |-> TRUE, sleepState |-> "none"],
     [isIdle |-> FALSE, sleepState |-> "sleep_start"],
     [isIdle |-> FALSE, sleepState |-> "sleep_stop"]}

\* the system entries and the focused entries HighlightStats may be given
StatsSystem ==
    {Consecutive([k \in 1..Len(ts) |->
                     [start |-> ts[k], end |-> Undefined,
                      isIdle |-> ks[k].isIdle, sleepState |-> ks[k].sleepState]]) :
        ts \in {SortedSeq(T) : T \in {S \in SUBSET StatsTimes :
                                         Cardinality(S) <= MaxStatsEntries}},
        ks \in [1..MaxStatsEntries -> SystemKinds]}

StatsFocused ==
    {Consecutive([k \in 1..Len(ts) |->
                     [start |-> ts[k], end |-> Undefined, highlighted |-> hs[k]]]) :
        ts \in {SortedSeq(T) : T \in {S \in SUBSET StatsTimes :
                                         Cardinality(S) <= MaxStatsEntries}},
        hs \in [1..MaxStatsEntries -> BOOLEAN]}

\* HighlightStats alone: the range of the hours 1 to 4, looked at before it
\* starts, when it starts, while it runs and after it is over
InitStats ==
    /\ zone = Singapore
    /\ now \in {0, hourms, 3 * hourms, 5 * hourms}
    /\ logPath = "stats"
    /\ startDay = 1
    /\ hours = <<0, 24>>
    /\ rows = <<>>
    /\ entries = <<>>
    /\ pc = "stats"
    /\ i = 0
    /\ start = 0
    /\ end = 0
    /\ rects = <<>>
    /\ currentRect = NoRect
    /\ j = 0
    /\ r = <<>>
    /\ out = <<>>
    /\ processEntries = <<>>
    /\ processRects = <<>>
    /\ processIntervals = <<>>
    /\ processNameToIndex = <<>>
    /\ groupIndex = 0
    /\ startDate = Date(1, 0)
    /\ endDate = EndDate(startDate)
    /\ focusedEntries = <<>>
    /\ systemEntries = <<>>
    /\ lastFocused = 0
    /\ fetches = {}
    /\ requests = 0
    /\ windowFocused = TRUE
    /\ blurredAt = 0
    /\ unhandled = <<>>
    /\ MonitorInit
    /\ CsvInit
    /\ ViewInit
    /\ data \in [system : StatsSystem, focused : StatsFocused]
    /\ timeRange = <<hourms, 4 * hourms>>
    /\ stats = NoStats

NextStats ==
    \/ Derive
    \/ \E range \in StatsRanges : SetTimeRange(range)

SpecStats == InitStats /\ [][NextStats]_vars

NextPage ==
    \/ \E weeks \in {-1, 1} : OffsetWeek(weeks)
    \/ Today
    \/ \E f \in fetches : FetchResolve(f)
    \/ \E f \in fetches : FetchFail(f)
    \/ HandleFocus
    \/ Blur
    \/ Tick

SpecPage == InitPage /\ [][NextPage]_vars

Next ==
    \/ Load
    \/ FocusedFor
    \/ FocusedWhile
    \/ FocusedNext
    \/ FocusedReturn
    \/ SystemFor
    \/ SystemForDone
    \/ SystemFlatMap
    \/ SystemWhile
    \/ SystemNext
    \/ SystemReturn

Spec == Init /\ [][Next]_vars

\* ------------------------------------------------------------------------
\* Properties
\* ------------------------------------------------------------------------
\* the day-split blocks emitted so far
Blocks == IF logPath = "focused" THEN rects ELSE out \o r

\* the while loop of the current entry (rect) has just ended
LoopExit == pc = "while" /\ ~(start < end)

\* the blocks of the entry the focused loop is at
EntryBlocks == SelectSeq(rects, LAMBDA b : b.entry = entries[i])

\* the number of local midnights strictly inside (s, e)
MidnightsIn(s, e) ==
    Cardinality({d \in LocalDay(s)..(LocalDay(e) + 1) :
                    s < LocalDayStart(d) /\ LocalDayStart(d) < e})

\* sl tiles [s, e): it starts at s, ends at e, a slice starts where the one
\* before ends (or 1 ms later, the closed-interval convention of the code),
\* and there is one slice more than midnights
Tiles(sl, s, e) ==
    /\ Len(sl) = MidnightsIn(s, e) + 1
    /\ sl[1].start = s
    /\ sl[Len(sl)].end = e
    /\ \A k \in 1..Len(sl) - 1 : sl[k + 1].start - sl[k].end \in {0, 1}

\* C1: every block emitted by day splitting lies inside one local calendar
\* day: the local date of its start is the local date of its end.
C1_SingleLocalDay ==
    \A k \in 1..Len(Blocks) :
        LocalDay(Blocks[k].start) = LocalDay(Blocks[k].end)

\* C2: when the splitting of an interval B with B.start < B.end is finished,
\* its sub-blocks tile [B.start, B.end): first starts at B.start, last ends
\* at B.end, no gap, no overlap, and n midnights give n + 1 sub-blocks.
C2_SplitTiles ==
    /\ (logPath = "system" /\ LoopExit /\ rects[j].start < rects[j].end)
            => Tiles(r, rects[j].start, rects[j].end)
    /\ (logPath = "focused" /\ LoopExit /\ hours = <<0, 24>>
          /\ entries[i].start < FocusedEnd(entries[i]))
            => /\ EntryBlocks # <<>>
               /\ Tiles(EntryBlocks, entries[i].start, FocusedEnd(entries[i]))

\* C3: every iteration of a day-splitting loop strictly advances start.
C3_LoopAdvances ==
    [][(pc = "while" /\ start < end) => start' > start]_vars

\* C4: nextMidnight(ts) is the instant of the next 00:00 local time, taken
\* with the zone offset in force at that local midnight (stated here up to
\* the one second that Date.UTC(..., 0, 0, 1) adds in every zone).
C4_TrueLocalMidnight ==
    (pc = "while" /\ start < end)
        => Abs(nextMidnight(start) - LocalDayStart(LocalDay(start) + 1)) <= secms

\* C5: every block returned satisfies start < end strictly.
C5_PositiveLength ==
    \A k \in 1..Len(Blocks) : Blocks[k].start < Blocks[k].end

\* C6: the end field of the last (or only) block of a focused entry is the
\* entry's end (the start of the next entry), not the end of the local day.
C6_LastBlockEndsAtEntryEnd ==
    (logPath = "focused" /\ LoopExit /\ EntryBlocks # <<>>)
        => EntryBlocks[Len(EntryBlocks)].end = end

\* C7: no block of a focused entry without end extends past now, nor past
\* the end of the last displayed day.
C7_OpenEntryCapped ==
    logPath = "focused" =>
        \A k \in 1..Len(rects) :
            rects[k].entry.end = Undefined =>
                /\ rects[k].end <= now
                /\ rects[k].end <= dateRangeLast + dayms

C9_IdleDisjointSorted ==
    (logPath = "system" /\ pc \in {"for", "flatMap", "while"}) =>
        \A a, b \in 1..Len(rects) :
            a < b => /\ rects[a].start <= rects[b].start
                     /\ rects[a].end <= rects[b].start

C9_Witness ==
    /\ logPath = "system"
    /\ pc = "flatMap"
    /\ Len(rects) >= 2
    /\ rects[1].start < rects[1].end

\* C10: if the last system entry is idle, the Idle interval still open after
\* the last entry is emitted with end = now, however many idle rows the
\* trailing run has.
C10_OpenIdleEndsNow ==
    (logPath = "system" /\ pc = "flatMap" /\ Len(entries) > 0
       /\ entries[Len(entries)].isIdle)
        => /\ rects # <<>>
           /\ rects[Len(rects)].end = now

\* the maximal runs of idle entries among entries[1..n]: the indices where a
\* run starts, the index where the run started at k ends, and the run
\* starts in ascending order
RunStarts(n) ==
    {k \in 1..n : entries[k].isIdle /\ (k = 1 \/ ~entries[k - 1].isIdle)}
RunLast(k, n) ==
    CHOOSE m \in k..n :
        /\ \A x \in k..m : entries[x].isIdle
        /\ (m = n \/ ~entries[m + 1].isIdle)
NthRunStart(q, n) ==
    CHOOSE k \in RunStarts(n) : Cardinality({x \in RunStarts(n) : x < k}) = q - 1

\* C11: every maximal run of consecutive idle entries yields exactly one
\* Idle interval; it opens at the start of the run's first entry and, when a
\* non-idle entry follows, it is closed at the end of the run's last idle
\* entry, which is the start of that non-idle entry, and emitted; non-idle
\* entries neither open nor extend an interval.
C11_OneIntervalPerIdleRun ==
    (logPath = "system" /\ pc = "for") =>
        LET n == i - 1
            closed == {k \in RunStarts(n) : RunLast(k, n) < n}
        IN  /\ Len(rects) = Cardinality(closed)
            /\ (currentRect # NoRect) <=> (n >= 1 /\ entries[n].isIdle)
            /\ \A q \in 1..Cardinality(RunStarts(n)) :
                    LET k == NthRunStart(q, n)
                        m == RunLast(k, n)
                        b == IF m < n THEN rects[q] ELSE currentRect
                    IN  /\ b.label = "Idle"
                        /\ b.start = entries[k].start
                        /\ m < n => /\ b.end = entries[m].end
                                    /\ b.end = entries[m + 1].start

C11_Witness ==
    /\ logPath = "system"
    /\ pc = "for"
    /\ i = 4
    /\ entries[1].isIdle /\ entries[2].isIdle /\ ~entries[3].isIdle
    /\ entries[1].start < entries[2].start
    /\ entries[2].start < entries[3].start
    /\ Len(rects) = 1
    /\ rects[1].start = entries[1].start
    /\ rects[1].end = entries[3].start

\* the merged intervals of getSystemBlocks (before day splitting) labelled
\* l that cover [s, e)
MergedBlocks(l, s, e) ==
    {k \in 1..Len(rects) :
        rects[k].label = l /\ rects[k].start = s /\ rects[k].end = e}

\* entry b is a sleep_stop and entry a the sleep_start it closes
SleepPair(a, b) ==
    /\ a < b
    /\ entries[a].sleepState = "sleep_start"
    /\ entries[b].sleepState = "sleep_stop"
    /\ \A x \in (a + 1)..(b - 1) : entries[x].sleepState = "false"

\* entry b is a sleep_stop with no sleep_start open before it
LoneSleepStop(b) ==
    /\ entries[b].sleepState = "sleep_stop"
    /\ \A a \in 1..(b - 1) :
          entries[a].sleepState = "sleep_start"
              => \E x \in (a + 1)..(b - 1) : entries[x].sleepState = "sleep_stop"

\* C12: getSystemBlocks merges the sleep signal as well: a sleep_start entry
\* followed later by the sleep_stop entry that closes it yields exactly one
\* block labelled 'Sleep' from the time of the first to the time of the
\* second, next to the Idle blocks.
C12_SleepBlockEmitted ==
    (logPath = "system" /\ pc = "flatMap") =>
        \A a, b \in 1..Len(entries) :
            (SleepPair(a, b) /\ entries[a].start < entries[b].start)
                => Cardinality(MergedBlocks("Sleep", entries[a].start,
                                            entries[b].start)) = 1

\* C13: a sleep_stop entry at time t with no open sleep_start before it
\* yields a synthesized Sleep interval [t - 7 days, t).
C13_LoneStopSynthesized ==
    (logPath = "system" /\ pc = "flatMap") =>
        \A b \in 1..Len(entries) :
            LoneSleepStop(b)
                => MergedBlocks("Sleep", entries[b].start - 7 * dayms,
                                entries[b].start) # {}

\* the blocks of processEntries that hold the sample of row k (the sample
\* is recognised by its cpu value, the position of its row)
BlocksOfSample(k) ==
    {b \in 1..Len(processEntries) :
        \E n \in 1..Len(processEntries[b].cpu) : processEntries[b].cpu[n] = k}

\* two samples agree on pid, started time and local day of the week
SameKey(a, b) ==
    /\ a.pid = b.pid
    /\ DateOf(a.started) = DateOf(b.started)
    /\ LocalDay(DateOf(a.time)) % 7 = LocalDay(DateOf(b.time)) % 7

\* C14: consolidateProcessEntries partitions the samples by the key (pid,
\* started, local day of week): every sample is in exactly one block, once;
\* two samples are in the same block exactly when their keys are equal;
\* timestamps, cpu and memory of a block have the same length and keep the
\* input order; block.start is the first and block.end the last timestamp.
C14_PartitionByKey ==
    (logPath = "process" /\ pc = "rects") =>
        /\ \A k \in 1..Len(rows) :
              /\ Cardinality(BlocksOfSample(k)) = 1
              /\ \A b \in BlocksOfSample(k) :
                    Cardinality({n \in 1..Len(processEntries[b].cpu) :
                                    processEntries[b].cpu[n] = k}) = 1
        /\ \A k, m \in 1..Len(rows) :
              (BlocksOfSample(k) = BlocksOfSample(m)) <=> SameKey(rows[k], rows[m])
        /\ \A b \in 1..Len(processEntries) :
              LET blk == processEntries[b]
                  len == Len(blk.timestamps)
              IN  /\ len >= 1
                  /\ Len(blk.cpu) = len
                  /\ Len(blk.memory) = len
                  /\ \A n \in 1..len :
                        /\ blk.cpu[n] \in 1..Len(rows)
                        /\ blk.timestamps[n] = DateOf(rows[blk.cpu[n]].time)
                        /\ blk.memory[n] = rows[blk.cpu[n]].memory
                        /\ n < len => blk.cpu[n] < blk.cpu[n + 1]
                  /\ blk.start = blk.timestamps[1]
                  /\ blk.end = blk.timestamps[len]

C14_Witness ==
    /\ logPath = "process"
    /\ pc = "rects"
    /\ Len(rows) = 6
    /\ Len(processEntries) = 3
    /\ processEntries[1].cpu = <<1, 2>>
    /\ processEntries[2].cpu = <<3, 5>>
    /\ processEntries[2].pid = processEntries[1].pid
    /\ processEntries[3].cpu = <<4, 6>>
    /\ processEntries[3].pid = processEntries[1].pid
    /\ processEntries[3].started = processEntries[1].started

\* C15: the key has the day of the week, not the calendar date: two samples
\* of the same pid and started time taken on the same weekday of different
\* weeks are in one ProcessEntryBlock, whose start and end are more than
\* one day apart.
C15_WeeksMerged ==
    (logPath = "process" /\ pc = "rects") =>
        \A k, m \in 1..Len(rows) :
            (/\ rows[k].pid = rows[m].pid
             /\ rows[k].started = rows[m].started
             /\ LocalDay(DateOf(rows[k].time)) % 7 = LocalDay(DateOf(rows[m].time)) % 7
             /\ LocalDay(DateOf(rows[k].time)) # LocalDay(DateOf(rows[m].time)))
                => \E b \in 1..Len(processEntries) :
                      /\ b \in BlocksOfSample(k)
                      /\ b \in BlocksOfSample(m)
                      /\ processEntries[b].end - processEntries[b].start > dayms

C15_Witness ==
    /\ logPath = "process"
    /\ pc = "rects"
    /\ \E b \in 1..Len(processEntries) :
          /\ Len(processEntries[b].timestamps) = 2
          /\ LocalDay(processEntries[b].end)
                = LocalDay(processEntries[b].start) + 7
          /\ processEntries[b].end - processEntries[b].start = 7 * dayms

\* the groups of processIntervals that belong to a process name
GroupsOfName(name) ==
    {x \in 1..Len(processIntervals) : processIntervals[x].group[1] = name}

\* C16: in the lane allocator the intervals recorded in one lane group
\* (name-groupIndex) never overlap pairwise (a.start < b.end and
\* a.end > b.start), after any number of rects; and the search for a free
\* group ends: groupIndex never passes the number of groups of the name,
\* and the group after the last existing one is always free.
C16_GroupIntervalsDisjoint ==
    logPath = "process" =>
        /\ \A x \in 1..Len(processIntervals) :
              LET intervals == processIntervals[x].intervals
              IN  \A a, b \in 1..Len(intervals) :
                      a # b => ~(/\ intervals[a][1] < intervals[b][2]
                                 /\ intervals[a][2] > intervals[b][1])
        /\ (pc = "lanes" /\ i <= Len(processRects)) =>
              LET entry == processRects[i].entry
                  n == Cardinality(GroupsOfName(entry.name))
              IN  /\ groupIndex <= n
                  /\ canPlaceInGroup(entry, Group(entry, n))

C16_Witness ==
    /\ logPath = "process"
    /\ pc = "render"
    /\ Len(processIntervals) = 2
    /\ processIntervals[1].group = <<"a.exe", 0>>
    /\ processIntervals[2].group = <<"a.exe", 1>>
    /\ Len(processIntervals[1].intervals) = 2
    /\ Len(processIntervals[2].intervals) = 1
    /\ processIntervals[2].intervals[1][1] < processIntervals[1].intervals[2][2]
    /\ processIntervals[2].intervals[1][2] > processIntervals[1].intervals[2][1]

\* every sample of the log lies in the displayed week, as in the response
\* to one fetch of loadData
OneWeekLog ==
    \A k \in 1..Len(rows) :
        /\ dateRangeFirst <= DateOf(rows[k].time)
        /\ DateOf(rows[k].time) < dateRangeLast + dayms

\* C17: two rects of the same process name that are drawn with the same
\* lane index (the index stored for their name-pid) never overlap in time,
\* also when one pid has several blocks and when an entry is day-split.
C17_NoVisualCollision ==
    (logPath = "process" /\ pc = "render" /\ OneWeekLog) =>
        \A a, b \in 1..Len(processRects) :
            (/\ a # b
             /\ processRects[a].entry.name = processRects[b].entry.name
             /\ LaneIndex(getUniqueProcessName(processRects[a].entry))
                  = LaneIndex(getUniqueProcessName(processRects[b].entry)))
                => ~(/\ processRects[a].start < processRects[b].end
                     /\ processRects[a].end > processRects[b].start)

\* the lane rect k of processRects is drawn in
LaneOfRect(k) == LaneIndex(getUniqueProcessName(processRects[k].entry))

\* the blocks of rects a and b overlap
BlocksOverlap(a, b) ==
    /\ processRects[a].entry.start < processRects[b].entry.end
    /\ processRects[a].entry.end > processRects[b].entry.start

\* C18: lane allocation is greedy in first-seen order: a block is placed in
\* the lowest-numbered group of its name without an overlapping interval;
\* so of the first blocks of a process name (no other name shown), two that
\* overlap get lane indices 0 and 1, and a third that overlaps neither of
\* them reuses lane 0.
C18_GreedyFirstSeen ==
    /\ (logPath = "process" /\ pc = "lanes" /\ i <= Len(processRects)) =>
          \A g \in 0..(groupIndex - 1) :
              ~canPlaceInGroup(processRects[i].entry,
                               Group(processRects[i].entry, g))
    /\ (/\ logPath = "process"
        /\ pc = "render"
        /\ OneWeekLog
        /\ Len(processRects) >= 2
        /\ \A k \in 1..Len(processRects) :
              processRects[k].entry.name = processRects[1].entry.name
        /\ BlocksOverlap(1, 2))
          => /\ LaneOfRect(1) = 0
             /\ LaneOfRect(2) = 1
             /\ (/\ Len(processRects) >= 3
                 /\ ~BlocksOverlap(3, 1)
                 /\ ~BlocksOverlap(3, 2)) => LaneOfRect(3) = 0

\* the user has changed the visible week since load f was issued (a week
\* button or Today starts the load whose number becomes startDate.id), or
\* the range f asked for is not the visible one
RangeChangedSince(f) ==
    \/ f.req < startDate.id
    \/ f.start.time # startDate.time
    \/ f.end.time # endDate.time

\* C19: stale results are discarded: when a load issued by loadData for
\* (start, end) resolves after the visible week was changed by a week
\* button or by Today, the step assigns none of focusedEntries,
\* processEntries and systemEntries, in every interleaving.
C19_StaleDiscarded ==
    [][\A f \in fetches :
          (fetches' = fetches \ {f} /\ RangeChangedSince(f))
              => UNCHANGED <<focusedEntries, processEntries, systemEntries>>]_vars

C19_Witness ==
    /\ logPath = "page"
    /\ requests = 2
    /\ startDate.id = 2
    /\ \A f \in fetches : f.req = 2
    /\ \E f \in fetches : f.log = "focused"
    /\ \E f \in fetches : f.log = "process"
    /\ focusedEntries = <<>>
    /\ processEntries # <<>>
    /\ processEntries[1].req = 1
    /\ systemEntries = <<>>

\* the window has been without focus for longer than the threshold
UnfocusedLong == now - blurredAt > focusThreshold

\* C20: a focus event reloads (calls loadData) when the window had been
\* unfocused for longer than 60 s, and a focus event after a shorter
\* unfocused period reloads nothing.
C20_ReloadIffUnfocusedLong ==
    [][(~windowFocused /\ windowFocused')
          => ((requests' # requests) <=> UnfocusedLong)]_vars

\* the entry list of +page.svelte that holds a log kind
EntriesOf(log) ==
    CASE log = "focused" -> focusedEntries
      [] log = "process" -> processEntries
      [] log = "system" -> systemEntries
      [] OTHER -> <<>>

\* the step is the rejection of a load of the most recent request, which
\* was made for the range now displayed
LoadFails(l) ==
    /\ unhandled' # unhandled
    /\ unhandled'[Len(unhandled')].log = l
    /\ unhandled'[Len(unhandled')].req = requests
    /\ unhandled'[Len(unhandled')].start = startDate
    /\ unhandled'[Len(unhandled')].end = endDate

\* C21: a failed load is caught and leaves a blank week: whenever the load
\* of a log kind fails, whether it was started by a week change, by Today
\* or by a focus reload, the entry list of that kind is empty afterwards
C21_FailedLoadIsEmpty ==
    [][\A l \in Logs : LoadFails(l) => EntriesOf(l)' = <<>>]_vars

\* C24: of several loads in flight for the displayed range, an older
\* response never overwrites a newer one: a step that replaces the data a
\* list holds puts there the data of a request issued no earlier
C24_NewestResponseWins ==
    [][\A l \in Logs :
          (EntriesOf(l) # <<>> /\ EntriesOf(l)' # <<>>)
              => EntriesOf(l)'[1].req >= EntriesOf(l)[1].req]_vars

\* C25: at every moment each entry list is empty or holds the result of
\* a fetch issued for the displayed range (startDate, endDate)
C25_HeldDataIsOfRange ==
    \A l \in Logs :
        EntriesOf(l) # <<>>
            => /\ EntriesOf(l)[1].start = startDate.time
               /\ EntriesOf(l)[1].end = endDate.time

\* instants of each displayed day: its first instant, midday and its last
\* second
DisplayedInstants ==
    {dateRange(startDate)[d] + h : d \in 1..days, h \in {0, 12 * hourms, dayms - secms}}

\* C26: the range requested from the log endpoint covers every displayed
\* day: a row logged at any instant of the `days` days from startDate is
\* in the response of a load made for the displayed range
C26_FetchCoversDisplayedDays ==
    \A f \in fetches :
        (f.start = startDate /\ f.end = endDate)
            => \A t \in DisplayedInstants : Fetched(t, f)

\* the first instant of the local day of t
IsLocalMidnight(t) == (t + ZoneOffset(t)) % dayms = 0

\* m is the Monday 00:00 of the week of d: m <= d < m + 7 calendar days
MondayOf(m, d) ==
    /\ (LocalDay(m) % 7) = 1
    /\ IsLocalMidnight(m)
    /\ m <= d
    /\ LocalDay(d) - LocalDay(m) < 7

\* C28: after any sequence of week buttons and Today, startDate is a
\* Monday at 00:00 local time; setStartDateToMonday(d) is the Monday of
\* the week of d and is idempotent; offsetWeek(+1) followed by
\* offsetWeek(-1) restores the week
C28_StartDateIsMonday ==
    /\ (LocalDay(startDate.time) % 7) = 1
    /\ IsLocalMidnight(startDate.time)
    /\ MondayOf(setStartDateToMonday(now), now)
    /\ setStartDateToMonday(setStartDateToMonday(now)) = setStartDateToMonday(now)
    /\ offsetWeek(offsetWeek(startDate.time, 1), -1) = startDate.time
    /\ offsetWeek(offsetWeek(startDate.time, -1), 1) = startDate.time

\* in New York, mounted on the Tuesday after the clock change, the week
\* after next week was reached with the week button and Today brought the
\* page back
C28_Witness ==
    /\ zone = NewYork
    /\ now = 2 * dayms + 18 * hourms
    /\ requests = 3
    /\ startDate = Date(3, setStartDateToMonday(now))
    /\ startDate.time = dayms + 5 * hourms

\* the step hands a row to client.write
Writes == Len(written') = Len(written) + 1
NewRow == written'[Len(written')]

\* poll k has got the focused window / the process states it compares
SawFocused(k) == polls[k].pc \notin {"a188", "a197", "a212", "a218"}
SawProcesses(k) == SawFocused(k) /\ polls[k].pc # "a219"

\* C22: the poller logs only changes: a poll writes a focused row only
\* when the focused window differs from the one the previous poll saw, and
\* a process row for a pid only when the pid was absent at the previous
\* poll or its state differs from the state the previous poll saw
C22_OnlyChangesLogged ==
    [][\A k \in 2..Len(polls) :
          (Writes /\ NewRow.poll = k)
              => /\ (NewRow.m = "focused" /\ SawFocused(k - 1))
                        => NewRow.title # polls[k - 1].focused
                 /\ (NewRow.m = "process" /\ SawProcesses(k - 1))
                        => NewRow.state # polls[k - 1].processStates[NewRow.pid]]_vars

\* the sleep rows among the rows written, in the order they were written
SleepRows ==
    SelectSeq(written, LAMBDA row : row.m = "system" /\ row.sleepState # "none")

\* C27: over any interleaving of polls the sleep rows alternate
\* sleep_start, sleep_stop, sleep_start, ..., beginning with sleep_start,
\* and each sleep_stop is later than the sleep_start before it
C27_SleepRowsAlternate ==
    \A n \in 1..Len(SleepRows) :
        IF n % 2 = 1
        THEN SleepRows[n].sleepState = "sleep_start"
        ELSE /\ SleepRows[n].sleepState = "sleep_stop"
             /\ SleepRows[n].time > SleepRows[n - 1].time

\* C23: CSV round trip: every value the endpoint writes comes back from
\* load() as the same string in the same column, also when it contains a
\* comma or a double quote
C23_CsvRoundTrip ==
    csvEntry # <<>>
        => /\ Len(csvEntry) = Len(csvRow)
           /\ \A c \in 1..Len(csvRow) : csvEntry[c] = csvRow[c]

\* the handler that ran in this step
Gesture == gestures'[Len(gestures')]

\* C29: after any sequence of wheel zooms and middle-button pans, with the
\* cursor anywhere, the displayed window is inside the day (offset <=
\* start < end <= 24 h + offset), is at least one hour long after a zoom,
\* and keeps its length over a pan
C29_WindowInsideDay ==
    [][gestures' # gestures
          => /\ viewOffset <= displayed'.start
             /\ displayed'.start < displayed'.end
             /\ displayed'.end <= 24 * hour + viewOffset
             /\ Gesture = "zoom" => displayed'.end - displayed'.start >= hour
             /\ Gesture = "pan" => displayed'.end - displayed'.start
                                       = displayed.end - displayed.start]_vars

\* two intervals share more than an end point
Overlap(a, b) == a.start < b.end /\ b.start < a.end

\* every interval of the sequence lies inside the range
InsideRange(intervals, range) ==
    \A k \in 1..Len(intervals) :
        /\ range[1] <= intervals[k].start
        /\ intervals[k].start <= intervals[k].end
        /\ intervals[k].end <= range[2]

\* C30: for entries in timestamp order, 0 <= highlightedTime <= activeTime
\* <= length of the stats range; the clipped sleep and idle intervals are
\* pairwise disjoint and inside the range, and no highlighted interval
\* overlaps one of them
C30_HighlightedWithinActive ==
    stats.derived
        => /\ 0 <= stats.highlightedTime
           /\ stats.highlightedTime <= stats.activeTime
           /\ stats.activeTime
                  <= stats.timeRangeForStats[2] - stats.timeRangeForStats[1]
           /\ InsideRange(stats.sleepAndIdleIntervals, stats.timeRangeForStats)
           /\ \A a, b \in 1..Len(stats.sleepAndIdleIntervals) :
                  a # b => ~Overlap(stats.sleepAndIdleIntervals[a],
                                    stats.sleepAndIdleIntervals[b])
           /\ \A h \in 1..Len(stats.highlightedIntervals) :
                  \A a \in 1..Len(stats.sleepAndIdleIntervals) :
                      ~Overlap(stats.highlightedIntervals[h],
                               stats.sleepAndIdleIntervals[a])

====
